---- MODULE Spec2Model ----
(***************************************************************************)
(* Model of the canvas-capture orchestrator (CanvasManager) of rrweb:      *)
(* packages/rrweb/src/record/observers/canvas/canvas-manager.ts.           *)
(*                                                                         *)
(* The manager's fields are the variables of the same name.  The browser   *)
(* around it is modelled by: the identity mirror (mirror), the clock that  *)
(* stamps animation frames (now), the animation-frame loops that are       *)
(* scheduled (rafLoops), the createImageBitmap promises that have not      *)
(* settled (bitmapPending), the requests the worker holds (workerInbox),   *)
(* the log of the calls made to the mutation callback (emitted), and what *)
(* the page is like for discovery (dom).                                   *)
(***************************************************************************)
EXTENDS Integers, Sequences, FiniteSets, TLC

VARIABLES
    options,                 \* CanvasManagerConstructorOptions (the fields the manager reads)
    pendingCanvasMutations,  \* Map<canvas, mutation[]>, in insertion order
    rafStamps,               \* { latestId, invokeId }
    shadowDoms,              \* Set<WeakRef<ShadowRoot>>, in insertion order
    windowsSet,              \* WeakSet<IWindow>
    windows,                 \* WeakRef<IWindow>[]
    restoreHandlers,         \* listenerHandler[]
    frozen,
    locked,
    snapshotInProgressMap,   \* Map<number, boolean>
    worker,
    lastSnapshotTime,
    mirror,                  \* identity mirror: canvas -> id, NoId when the node is not tracked
    now,                     \* timestamp of the current animation frame / performance.now()
    rafLoops,                \* the self-rescheduling animation-frame callbacks that are scheduled
    rafOnce,                 \* one-shot animation-frame callbacks scheduled by snapshot()
    bitmapPending,           \* createImageBitmap promises not yet settled
    workerInbox,             \* requests posted to the worker and not yet answered
    emitted,                 \* calls made to mutationCb, oldest first
    errors,                  \* number of failures forwarded to the error handler
    intakeCount,             \* number of processMutation calls so far
    snapshotCalls,           \* number of snapshot() calls so far
    lastTaken,               \* timestamp of the last takeSnapshot that was taken, if any
    dom,                     \* the page: collected targets, cross-origin windows, blocked canvases
    replayer,                \* the replayer's event list, current time and the index found
    lastCall                 \* the last operation and what it returned

vars == << options, pendingCanvasMutations, rafStamps, shadowDoms, windowsSet,
           windows, restoreHandlers, frozen, locked, snapshotInProgressMap,
           worker, lastSnapshotTime, mirror, now, rafLoops, rafOnce,
           bitmapPending, workerInbox, emitted, errors, intakeCount,
           snapshotCalls, lastTaken, dom, replayer, lastCall >>

bufferVars   == << pendingCanvasMutations, rafStamps, intakeCount >>
gateVars     == << frozen, locked >>
registryVars == << shadowDoms, windowsSet, windows, restoreHandlers >>
snapshotVars == << snapshotInProgressMap, lastSnapshotTime, bitmapPending,
                   workerInbox, snapshotCalls, lastTaken >>

----------------------------------------------------------------------------
(* Bounds of the model *)

MaxIntake == 3      \* processMutation calls in one run
MaxFrames == 3      \* animation frames in one run
MaxRoots  == 2      \* addShadowRoot calls between two resets
MaxManual == 1      \* snapshot() calls in one run

(* The world the manager runs in *)

Canvases     == {"canvasA", "canvasB"}
Windows      == {"win"}
ShadowRoots  == {"root"}
FrameStep    == 250                      \* ms between two animation frames
NoId         == 0 - 1                    \* Mirror.getId of an untracked node
NullStamp    == 0 - 1                    \* rafStamps.invokeId === null
NeverTaken   == 0 - 1                    \* no takeSnapshot has been taken yet

MirrorId(canvas) == IF canvas = "canvasA" THEN 1 ELSE 2
Ids              == {MirrorId(c) : c \in Canvases}
CanvasOf(id)     == CHOOSE c \in Canvases : MirrorId(c) = id

\* the canvases of a window's document and of a shadow root
DocumentCanvases(win)  == IF win = "win" THEN <<"canvasA">> ELSE <<>>
ShadowCanvases(root)   == IF root = "root" THEN <<"canvasB">> ELSE <<>>
\* a canvas has one rendering context for its whole life (ICanvas.__context)
ContextOf(canvas)      == IF canvas = "canvasA" THEN "2d" ELSE "webgl"
\* the call the observers of that context report
RecordedProperty(canvas) == IF ContextOf(canvas) = "2d" THEN "fillRect" ELSE "clear"
\* canvas.width and canvas.height: the default size, or 0 where the page set it
CanvasWidth(canvas)    == IF canvas \in dom.zeroWidth THEN 0 ELSE 300
CanvasHeight(canvas)   == IF canvas \in dom.zeroHeight THEN 0 ELSE 150

----------------------------------------------------------------------------
(* Map<K, V> as a sequence of entries, which is its iteration order *)

MapHas(map, key) == \E i \in 1..Len(map) : map[i].key = key

MapGet(map, key) ==
    (CHOOSE i \in 1..Len(map) : map[i].key = key) \* defined when MapHas(map, key)

MapValue(map, key) == map[MapGet(map, key)].value

MapDelete(map, key) ==
    SelectSeq(map, LAMBDA e : e.key # key)

MapSet(map, key, value) ==
    IF MapHas(map, key)
    THEN [map EXCEPT ![MapGet(map, key)].value = value]
    ELSE Append(map, [key |-> key, value |-> value])

MapKeys(map) == [i \in 1..Len(map) |-> map[i].key]

Truthy(n) == n # NullStamp /\ n # 0

----------------------------------------------------------------------------
(* The constructor *)

\* the handlers addWindow pushes on restoreHandlers for a window
AddWindowHandlers(opts, win) ==
    IF opts.enableManualSnapshot
    THEN << >>
    ELSE (IF opts.recordCanvas /\ opts.sampling = "all"
          THEN << [kind |-> "mutationObserver", win |-> win] >> ELSE << >>)
         \o
         (IF opts.recordCanvas /\ opts.sampling = "number"
          THEN << [kind |-> "contextObserver", win |-> win] >> ELSE << >>)

\* mutation: manual-snapshot-only mode does not keep the loop from starting
StartsFPSLoop_IgnoresManualMode(opts, wins, roots) ==
    /\ opts.recordCanvas /\ opts.sampling = "number"
    /\ (Len(wins) # 0 \/ Len(roots) # 0)

\* initCanvasFPSObserver starts its loop unless there is nothing to search
StartsFPSLoop(opts, wins, roots) ==
    /\ ~opts.enableManualSnapshot
    /\ opts.recordCanvas /\ opts.sampling = "number"
    /\ (Len(wins) # 0 \/ Len(roots) # 0)

\* a page on which nothing is collected, cross-origin or blocked, every canvas
\* has its default size and no context preserves its drawing buffer
PlainDom == [collected |-> {}, crossOrigin |-> {}, blocked |-> {},
             preserving |-> {}, zeroWidth |-> {}, zeroHeight |-> {}]

\* no replayer at work
NoIndex == 0 - 2
NoReplayer == [events |-> << >>, currentTime |-> 0, index |-> NoIndex]

\* the constructor's test for initFPSWorker()
CreatesWorker(opts) ==
    (opts.recordCanvas /\ opts.sampling = "number") \/ opts.enableManualSnapshot

Construct(opts) ==
    /\ options = opts
    /\ pendingCanvasMutations = << >>
    /\ rafStamps = [latestId |-> 0, invokeId |-> NullStamp]
    /\ shadowDoms = << >>
    /\ windowsSet = {"win"}
    /\ windows = << "win" >>
    /\ restoreHandlers =
          AddWindowHandlers(opts, "win")
          \o (IF StartsFPSLoop(opts, << "win" >>, << >>)
              THEN << [kind |-> "fpsLoop", win |-> "win"] >> ELSE << >>)
    /\ frozen = FALSE
    /\ locked = FALSE
    /\ snapshotInProgressMap = << >>
    /\ worker = IF CreatesWorker(opts) THEN "worker" ELSE "null"
    /\ lastSnapshotTime = 0
    /\ rafLoops =
          (IF ~opts.enableManualSnapshot /\ opts.recordCanvas /\ opts.sampling = "all"
           THEN {"timestamp", "flush"} ELSE {})
          \cup (IF StartsFPSLoop(opts, << "win" >>, << >>) THEN {"fps"} ELSE {})
    /\ rafOnce = << >>
    /\ mirror = [c \in Canvases |-> MirrorId(c)]
    /\ now = 0
    /\ bitmapPending = << >>
    /\ workerInbox = << >>
    /\ emitted = << >>
    /\ errors = 0
    /\ intakeCount = 0
    /\ snapshotCalls = 0
    /\ lastTaken = NeverTaken
    /\ lastCall = [op |-> "constructor"]

\* recording every canvas call: sampling 'all'
RecordAllOptions ==
    [recordCanvas |-> TRUE, enableManualSnapshot |-> FALSE,
     sampling |-> "all", samplingRate |-> 0]

\* snapshotting at a numeric rate, with or without manual-snapshot-only mode
SnapshotOptions(manual) ==
    [recordCanvas |-> TRUE, enableManualSnapshot |-> manual,
     sampling |-> "number", samplingRate |-> 2]

Init == Construct(RecordAllOptions) /\ dom = PlainDom /\ replayer = NoReplayer

----------------------------------------------------------------------------
(* reset, freeze, unfreeze, lock, unlock *)

\* the handlers whose body is not in this file (the observers' restore
\* functions) may throw; the one that cancels the snapshot loop does not
MayThrow(handlers) == {i \in 1..Len(handlers) : handlers[i].kind # "fpsLoop"}

\* mutation: the first handler that throws ends the loop
RECURSIVE RunRestoreHandlers_StopsAtThrow(_, _, _, _)
RunRestoreHandlers_StopsAtThrow(handlers, i, throwing, acc) ==
    IF i > Len(handlers)
    THEN acc
    ELSE IF i \in throwing
    THEN [acc EXCEPT !.invoked = Append(@, i), !.caught = @ + 1]
    ELSE RunRestoreHandlers_StopsAtThrow(handlers, i + 1, throwing,
            [invoked |-> Append(acc.invoked, i),
             caught  |-> acc.caught,
             loops   |-> IF handlers[i].kind = "fpsLoop"
                         THEN acc.loops \ {"fps"} ELSE acc.loops])

\* restoreHandlers.forEach with its try / catch, from handler i on;
\* acc = [invoked, caught, loops]: the handlers called, the exceptions
\* swallowed, and the animation-frame loops still scheduled
RECURSIVE RunRestoreHandlers(_, _, _, _)
RunRestoreHandlers(handlers, i, throwing, acc) ==
    IF i > Len(handlers)
    THEN acc
    ELSE RunRestoreHandlers(handlers, i + 1, throwing,
            [invoked |-> Append(acc.invoked, i),
             caught  |-> IF i \in throwing THEN acc.caught + 1 ELSE acc.caught,
             loops   |-> IF i \notin throwing /\ handlers[i].kind = "fpsLoop"
                         THEN acc.loops \ {"fps"} ELSE acc.loops])

\* what a reset() call did, for the record: the handlers it invoked and the
\* exceptions it swallowed, whether it terminated a worker, whether the call
\* before it was a reset() too, and the sizes of what it found
ResetCall(run) ==
    [op         |-> "reset",
     invoked    |-> run.invoked,
     caught     |-> run.caught,
     terminated |-> worker # "null",
     again      |-> lastCall.op = "reset",
     before     |-> [pending    |-> Len(pendingCanvasMutations),
                     windows    |-> Len(windows),
                     shadowDoms |-> Len(shadowDoms),
                     inFlight   |-> Len(snapshotInProgressMap)]]

\* mutation: the handlers stay registered after they ran
Reset_KeepsHandlers ==
    \E throwing \in SUBSET MayThrow(restoreHandlers) :
       LET run == RunRestoreHandlers(restoreHandlers, 1, throwing,
                                     [invoked |-> << >>, caught |-> 0, loops |-> rafLoops])
       IN  /\ pendingCanvasMutations' = << >>
           /\ rafLoops' = run.loops
           /\ restoreHandlers' = restoreHandlers
           /\ windowsSet' = {}
           /\ windows' = << >>
           /\ shadowDoms' = << >>
           /\ workerInbox' = << >>
           /\ worker' = "null"
           /\ snapshotInProgressMap' = << >>
           /\ lastCall' = ResetCall(run)
           /\ UNCHANGED << options, dom, replayer, rafStamps, frozen, locked, lastSnapshotTime, mirror,
                           now, rafOnce, bitmapPending, emitted, errors, intakeCount,
                           snapshotCalls, lastTaken >>

\* mutation: the shadow roots survive a reset
Reset_KeepsShadowRoots ==
    \E throwing \in SUBSET MayThrow(restoreHandlers) :
       LET run == RunRestoreHandlers(restoreHandlers, 1, throwing,
                                     [invoked |-> << >>, caught |-> 0, loops |-> rafLoops])
       IN  /\ pendingCanvasMutations' = << >>
           /\ rafLoops' = run.loops
           /\ restoreHandlers' = << >>
           /\ windowsSet' = {}
           /\ windows' = << >>
           /\ shadowDoms' = shadowDoms
           /\ workerInbox' = << >>
           /\ worker' = "null"
           /\ snapshotInProgressMap' = << >>
           /\ lastCall' = ResetCall(run)
           /\ UNCHANGED << options, dom, replayer, rafStamps, frozen, locked, lastSnapshotTime, mirror,
                           now, rafOnce, bitmapPending, emitted, errors, intakeCount,
                           snapshotCalls, lastTaken >>

\* mutation: reset opens both gates
Reset_ClearsGates ==
    \E throwing \in SUBSET MayThrow(restoreHandlers) :
       LET run == RunRestoreHandlers(restoreHandlers, 1, throwing,
                                     [invoked |-> << >>, caught |-> 0, loops |-> rafLoops])
       IN  /\ pendingCanvasMutations' = << >>
           /\ rafLoops' = run.loops
           /\ restoreHandlers' = << >>
           /\ windowsSet' = {}
           /\ windows' = << >>
           /\ shadowDoms' = << >>
           /\ workerInbox' = << >>    \* terminate(): the worker answers nothing any more
           /\ worker' = "null"
           /\ snapshotInProgressMap' = << >>
           /\ lastCall' = ResetCall(run)
           /\ frozen' = FALSE
           /\ locked' = FALSE
           /\ UNCHANGED << options, dom, replayer, rafStamps, lastSnapshotTime, mirror,
                           now, rafOnce, bitmapPending, emitted, errors, intakeCount,
                           snapshotCalls, lastTaken >>

Reset ==
    \E throwing \in SUBSET MayThrow(restoreHandlers) :
       LET run == RunRestoreHandlers(restoreHandlers, 1, throwing,
                                     [invoked |-> << >>, caught |-> 0, loops |-> rafLoops])
       IN  /\ pendingCanvasMutations' = << >>
           /\ rafLoops' = run.loops
           /\ restoreHandlers' = << >>
           /\ windowsSet' = {}
           /\ windows' = << >>
           /\ shadowDoms' = << >>
           /\ workerInbox' = << >>    \* terminate(): the worker answers nothing any more
           /\ worker' = "null"
           /\ snapshotInProgressMap' = << >>
           /\ lastCall' = ResetCall(run)
           /\ UNCHANGED << options, dom, replayer, rafStamps, frozen, locked, lastSnapshotTime, mirror,
                           now, rafOnce, bitmapPending, emitted, errors, intakeCount,
                           snapshotCalls, lastTaken >>

Freeze ==
    /\ frozen' = TRUE
    /\ lastCall' = [op |-> "freeze"]
    /\ UNCHANGED << options, dom, replayer, bufferVars, registryVars, locked, snapshotVars, worker,
                    mirror, now, rafLoops, rafOnce, emitted, errors >>

Unfreeze ==
    /\ frozen' = FALSE
    /\ lastCall' = [op |-> "unfreeze"]
    /\ UNCHANGED << options, dom, replayer, bufferVars, registryVars, locked, snapshotVars, worker,
                    mirror, now, rafLoops, rafOnce, emitted, errors >>

Lock ==
    /\ locked' = TRUE
    /\ lastCall' = [op |-> "lock"]
    /\ UNCHANGED << options, dom, replayer, bufferVars, registryVars, frozen, snapshotVars, worker,
                    mirror, now, rafLoops, rafOnce, emitted, errors >>

Unlock ==
    /\ locked' = FALSE
    /\ lastCall' = [op |-> "unlock"]
    /\ UNCHANGED << options, dom, replayer, bufferVars, registryVars, frozen, snapshotVars, worker,
                    mirror, now, rafLoops, rafOnce, emitted, errors >>

----------------------------------------------------------------------------
(* addWindow *)

\* mutation: the membership set is not consulted
AddWindow_IgnoresWindowsSet(win) ==
    /\ restoreHandlers' = restoreHandlers \o AddWindowHandlers(options, win)
    /\ windowsSet' = windowsSet \cup {win}
    /\ windows' = Append(windows, win)
    /\ lastCall' = [op |-> "addWindow", win |-> win, known |-> win \in windowsSet]
    /\ UNCHANGED << options, dom, replayer, bufferVars, shadowDoms, gateVars, snapshotVars, worker,
                    mirror, now, rafLoops, rafOnce, emitted, errors >>

AddWindow(win) ==
    /\ IF win \in windowsSet
       THEN UNCHANGED << restoreHandlers, windowsSet, windows >>
       ELSE /\ restoreHandlers' = restoreHandlers \o AddWindowHandlers(options, win)
            /\ windowsSet' = windowsSet \cup {win}
            /\ windows' = Append(windows, win)
    /\ lastCall' = [op |-> "addWindow", win |-> win, known |-> win \in windowsSet]
    /\ UNCHANGED << options, dom, replayer, bufferVars, shadowDoms, gateVars, snapshotVars, worker,
                    mirror, now, rafLoops, rafOnce, emitted, errors >>

----------------------------------------------------------------------------
(* Intake: processMutation, called by the 2D and WebGL observers of a window *)

ObserversAttached ==
    \E i \in 1..Len(restoreHandlers) : restoreHandlers[i].kind = "mutationObserver"

\* mutation: an invokeId that is set is kept
NextInvokeId_KeepsFirst(stamps) ==
    IF Truthy(stamps.invokeId) THEN stamps.invokeId ELSE stamps.latestId

NextInvokeId(stamps) ==
    LET newFrame == Truthy(stamps.invokeId) /\ stamps.latestId # stamps.invokeId
    IN  IF newFrame \/ ~Truthy(stamps.invokeId) THEN stamps.latestId ELSE stamps.invokeId

\* mutation: the record is put in front of the queue
PushMutation_Prepends(map, target, mutation) ==
    LET withKey == IF MapHas(map, target) THEN map ELSE MapSet(map, target, << >>)
    IN  MapSet(withKey, target, << mutation >> \o MapValue(withKey, target))

PushMutation(map, target, mutation) ==
    LET withKey == IF MapHas(map, target) THEN map ELSE MapSet(map, target, << >>)
    IN  MapSet(withKey, target, Append(MapValue(withKey, target), mutation))

ProcessMutation(target) ==
    LET mutation == [type     |-> ContextOf(target),
                     property |-> RecordedProperty(target),
                     args     |-> << intakeCount + 1 >>]
    IN  /\ ObserversAttached
        /\ intakeCount < MaxIntake
        /\ rafStamps' = [rafStamps EXCEPT !.invokeId = NextInvokeId(rafStamps)]
        /\ pendingCanvasMutations' = PushMutation(pendingCanvasMutations, target, mutation)
        /\ intakeCount' = intakeCount + 1
        /\ lastCall' = [op |-> "processMutation", canvas |-> target]
        /\ UNCHANGED << options, dom, replayer, registryVars, gateVars, snapshotVars, worker, mirror,
                        now, rafLoops, rafOnce, emitted, errors >>

----------------------------------------------------------------------------
(* The frame clock and the flush loop *)

\* the first callback of every animation frame, called with the frame's timestamp
SetLatestRAFTimestamp ==
    /\ "timestamp" \in rafLoops
    /\ now < MaxFrames * FrameStep
    /\ now' = now + FrameStep
    /\ rafStamps' = [rafStamps EXCEPT !.latestId = now']
    /\ lastCall' = [op |-> "setLatestRAFTimestamp"]
    /\ UNCHANGED << options, dom, replayer, pendingCanvasMutations, intakeCount, registryVars, gateVars,
                    snapshotVars, worker, mirror, rafLoops, rafOnce, emitted, errors >>

StripType(valuesWithType) ==
    [i \in 1..Len(valuesWithType) |->
        [property |-> valuesWithType[i].property, args |-> valuesWithType[i].args]]

\* mutation: the flushed entry stays in the buffer
FlushPendingCanvasMutationFor_KeepsEntry(st, canvas, id, isFrozen, isLocked) ==
    IF isFrozen \/ isLocked
    THEN st
    ELSE IF ~MapHas(st.pending, canvas) \/ id = NoId
    THEN st
    ELSE LET valuesWithType == MapValue(st.pending, canvas)
         IN  [pending |-> st.pending,
              out     |-> Append(st.out, [id       |-> id,
                                          type     |-> valuesWithType[1].type,
                                          commands |-> StripType(valuesWithType)])]

\* mutation: the entry is removed without being emitted
FlushPendingCanvasMutationFor_DropsEntry(st, canvas, id, isFrozen, isLocked) ==
    IF isFrozen \/ isLocked
    THEN st
    ELSE IF ~MapHas(st.pending, canvas) \/ id = NoId
    THEN st
    ELSE [pending |-> MapDelete(st.pending, canvas), out |-> st.out]

\* mutation: only locked inhibits the flush
FlushPendingCanvasMutationFor_IgnoresFrozen(st, canvas, id, isFrozen, isLocked) ==
    IF isLocked
    THEN st
    ELSE IF ~MapHas(st.pending, canvas) \/ id = NoId
    THEN st
    ELSE LET valuesWithType == MapValue(st.pending, canvas)
         IN  [pending |-> MapDelete(st.pending, canvas),
              out     |-> Append(st.out, [id       |-> id,
                                          type     |-> valuesWithType[1].type,
                                          commands |-> StripType(valuesWithType)])]

\* mutation: only frozen inhibits the flush
FlushPendingCanvasMutationFor_IgnoresLocked(st, canvas, id, isFrozen, isLocked) ==
    IF isFrozen
    THEN st
    ELSE IF ~MapHas(st.pending, canvas) \/ id = NoId
    THEN st
    ELSE LET valuesWithType == MapValue(st.pending, canvas)
         IN  [pending |-> MapDelete(st.pending, canvas),
              out     |-> Append(st.out, [id       |-> id,
                                          type     |-> valuesWithType[1].type,
                                          commands |-> StripType(valuesWithType)])]

\* st = [pending, out]: the buffer and the calls made to mutationCb so far
\* mutation: the flushed canvas keeps its key, with an empty queue
FlushPendingCanvasMutationFor_EmptiesEntry(st, canvas, id, isFrozen, isLocked) ==
    IF isFrozen \/ isLocked
    THEN st
    ELSE IF ~MapHas(st.pending, canvas) \/ id = NoId
    THEN st
    ELSE LET valuesWithType == MapValue(st.pending, canvas)
         IN  [pending |-> MapSet(st.pending, canvas, << >>),
              out     |-> IF valuesWithType = << >>
                          THEN st.out
                          ELSE Append(st.out, [id       |-> id,
                                               type     |-> valuesWithType[1].type,
                                               commands |-> StripType(valuesWithType)])]

FlushPendingCanvasMutationFor(st, canvas, id, isFrozen, isLocked) ==
    IF isFrozen \/ isLocked
    THEN st
    ELSE IF ~MapHas(st.pending, canvas) \/ id = NoId
    THEN st
    ELSE LET valuesWithType == MapValue(st.pending, canvas)
         IN  [pending |-> MapDelete(st.pending, canvas),
              out     |-> Append(st.out, [id       |-> id,
                                          type     |-> valuesWithType[1].type,
                                          commands |-> StripType(valuesWithType)])]

\* mutation: the pass ends at the first canvas whose id is -1
RECURSIVE FlushEach_StopsAtUnresolvable(_, _, _, _, _)
FlushEach_StopsAtUnresolvable(keys, st, ids, isFrozen, isLocked) ==
    IF keys = << >> \/ ids[Head(keys)] = NoId
    THEN st
    ELSE FlushEach_StopsAtUnresolvable(
             Tail(keys),
             FlushPendingCanvasMutationFor(st, Head(keys), ids[Head(keys)],
                                           isFrozen, isLocked),
             ids, isFrozen, isLocked)

RECURSIVE FlushEach(_, _, _, _, _)
FlushEach(keys, st, ids, isFrozen, isLocked) ==
    IF keys = << >>
    THEN st
    ELSE FlushEach(Tail(keys),
                   FlushPendingCanvasMutationFor(st, Head(keys), ids[Head(keys)],
                                                 isFrozen, isLocked),
                   ids, isFrozen, isLocked)

FlushPendingCanvasMutations ==
    LET st == FlushEach(MapKeys(pendingCanvasMutations),
                        [pending |-> pendingCanvasMutations, out |-> emitted],
                        mirror, frozen, locked)
    IN  /\ "flush" \in rafLoops
        /\ pendingCanvasMutations' = st.pending
        /\ emitted' = st.out
        /\ lastCall' = [op |-> "flush", emittedBefore |-> Len(emitted)]
        /\ UNCHANGED << options, dom, replayer, rafStamps, intakeCount, registryVars, gateVars,
                        snapshotVars, worker, mirror, now, rafLoops, rafOnce, errors >>

----------------------------------------------------------------------------
(* The identity mirror, owned by the recorder *)

MirrorRemove(canvas) ==
    /\ mirror[canvas] # NoId
    /\ mirror' = [mirror EXCEPT ![canvas] = NoId]
    /\ lastCall' = [op |-> "mirror"]
    /\ UNCHANGED << options, dom, replayer, bufferVars, registryVars, gateVars, snapshotVars, worker,
                    now, rafLoops, rafOnce, emitted, errors >>

MirrorAdd(canvas) ==
    /\ mirror[canvas] = NoId
    /\ mirror' = [mirror EXCEPT ![canvas] = MirrorId(canvas)]
    /\ lastCall' = [op |-> "mirror"]
    /\ UNCHANGED << options, dom, replayer, bufferVars, registryVars, gateVars, snapshotVars, worker,
                    now, rafLoops, rafOnce, emitted, errors >>

----------------------------------------------------------------------------
(* Recording every canvas call (sampling 'all') *)

Next ==
    \/ Reset
    \/ Freeze
    \/ Unfreeze
    \/ Lock
    \/ Unlock
    \/ \E win \in Windows : AddWindow(win)
    \/ \E target \in Canvases : ProcessMutation(target)
    \/ SetLatestRAFTimestamp
    \/ FlushPendingCanvasMutations
    \/ \E canvas \in Canvases : MirrorRemove(canvas)
    \/ \E canvas \in Canvases : MirrorAdd(canvas)

Spec == Init /\ [][Next]_vars

----------------------------------------------------------------------------
(* Recording every canvas call while animation frames keep firing: no reset, *)
(* and the mirror keeps every canvas                                         *)

NextFlushLoop ==
    \/ Freeze
    \/ Unfreeze
    \/ Lock
    \/ Unlock
    \/ \E target \in Canvases : ProcessMutation(target)
    \/ SetLatestRAFTimestamp
    \/ FlushPendingCanvasMutations

\* a pass of the flush loop that finds both gates clear
FlushWithGatesClear == FlushPendingCanvasMutations /\ ~frozen /\ ~locked

\* flushPendingCanvasMutations reschedules itself on every animation frame, so
\* gates that are clear again and again are met by a pass of the loop
FlushLoopSpec ==
    Init /\ [][NextFlushLoop]_vars /\ SF_vars(FlushWithGatesClear)

----------------------------------------------------------------------------
(* addShadowRoot *)

\* mutation: a shadow root that is registered already is not added again
AddShadowRoot_Deduplicates(shadowRoot) ==
    /\ Len(shadowDoms) < MaxRoots
    /\ shadowDoms' = IF \E i \in 1..Len(shadowDoms) : shadowDoms[i] = shadowRoot
                     THEN shadowDoms ELSE Append(shadowDoms, shadowRoot)
    /\ lastCall' = [op |-> "addShadowRoot"]
    /\ UNCHANGED << options, dom, replayer, bufferVars, windowsSet, windows, restoreHandlers, gateVars,
                    snapshotVars, worker, mirror, now, rafLoops, rafOnce, emitted, errors >>

AddShadowRoot(shadowRoot) ==
    /\ Len(shadowDoms) < MaxRoots
    /\ shadowDoms' = Append(shadowDoms, shadowRoot)
    /\ lastCall' = [op |-> "addShadowRoot"]
    /\ UNCHANGED << options, dom, replayer, bufferVars, windowsSet, windows, restoreHandlers, gateVars,
                    snapshotVars, worker, mirror, now, rafLoops, rafOnce, emitted, errors >>

ResetShadowRoots ==
    /\ shadowDoms' = << >>
    /\ lastCall' = [op |-> "resetShadowRoots", before |-> Len(shadowDoms)]
    /\ UNCHANGED << options, dom, replayer, bufferVars, windowsSet, windows, restoreHandlers, gateVars,
                    snapshotVars, worker, mirror, now, rafLoops, rafOnce, emitted, errors >>

----------------------------------------------------------------------------
(* The snapshot pipeline *)

\* isBlocked(canvas, blockClass, blockSelector, unblockSelector, true)
IsBlocked(canvas)       == canvas \in dom.blocked
\* WeakRef.deref() gives undefined
IsCollected(target)     == target \in dom.collected
\* reading win.document throws a security error
DocumentThrows(win)     == win \in dom.crossOrigin
\* getContext(...)?.getContextAttributes()?.preserveDrawingBuffer is not false
PreservesBuffer(canvas) == canvas \in dom.preserving

SearchCanvas(rootCanvases) == SelectSeq(rootCanvases, LAMBDA canvas : ~IsBlocked(canvas))

RECURSIVE SearchWindows(_)
SearchWindows(items) ==
    IF items = << >>
    THEN << >>
    ELSE (IF ~IsCollected(Head(items)) /\ ~DocumentThrows(Head(items))
          THEN SearchCanvas(DocumentCanvases(Head(items))) ELSE << >>)
         \o SearchWindows(Tail(items))

\* mutation: a collected shadow root is searched like a live one
RECURSIVE SearchShadowRoots_SearchesCollected(_)
SearchShadowRoots_SearchesCollected(items) ==
    IF items = << >>
    THEN << >>
    ELSE SearchCanvas(ShadowCanvases(Head(items)))
         \o SearchShadowRoots_SearchesCollected(Tail(items))

RECURSIVE SearchShadowRoots(_)
SearchShadowRoots(items) ==
    IF items = << >>
    THEN << >>
    ELSE (IF ~IsCollected(Head(items))
          THEN SearchCanvas(ShadowCanvases(Head(items))) ELSE << >>)
         \o SearchShadowRoots(Tail(items))

\* mutation: the security error of a cross-origin window ends the discovery
GetCanvasElements_PropagatesSecurityError ==
    IF \E i \in 1..Len(windows) : ~IsCollected(windows[i]) /\ DocumentThrows(windows[i])
    THEN << >>
    ELSE SearchWindows(windows) \o SearchShadowRoots(shadowDoms)

GetCanvasElements == SearchWindows(windows) \o SearchShadowRoots(shadowDoms)

InProgress(map, id) == MapHas(map, id) /\ MapValue(map, id) = TRUE

\* mutation: a canvas that is in flight is captured again
SnapshotCanvas_IgnoresInProgress(acc, canvas, isManualSnapshot) ==
    LET id == mirror[canvas]
    IN  IF \/ id = NoId
           \/ CanvasWidth(canvas) = 0
           \/ CanvasHeight(canvas) = 0
        THEN acc
        ELSE [map      |-> MapSet(acc.map, id, TRUE),
              cleared  |-> IF /\ ~isManualSnapshot
                              /\ ContextOf(canvas) \in {"webgl", "webgl2"}
                              /\ ~PreservesBuffer(canvas)
                           THEN Append(acc.cleared, canvas) ELSE acc.cleared,
              bitmaps  |-> Append(acc.bitmaps,
                                  [id |-> id, canvas |-> canvas,
                                   width |-> CanvasWidth(canvas),
                                   height |-> CanvasHeight(canvas)]),
              captured |-> Append(acc.captured, id),
              trace    |-> acc.trace
                           \o << [step |-> "mark", id |-> id] >>
                           \o (IF /\ ~isManualSnapshot
                                  /\ ContextOf(canvas) \in {"webgl", "webgl2"}
                                  /\ ~PreservesBuffer(canvas)
                               THEN << [step |-> "clear", id |-> id] >> ELSE << >>)
                           \o << [step |-> "capture", id |-> id] >>]

\* mutation: the captured canvas is not marked in flight
SnapshotCanvas_NeverMarks(acc, canvas, isManualSnapshot) ==
    LET id == mirror[canvas]
    IN  IF \/ id = NoId
           \/ CanvasWidth(canvas) = 0
           \/ CanvasHeight(canvas) = 0
           \/ InProgress(acc.map, id)
        THEN acc
        ELSE [map      |-> acc.map,
              cleared  |-> IF /\ ~isManualSnapshot
                              /\ ContextOf(canvas) \in {"webgl", "webgl2"}
                              /\ ~PreservesBuffer(canvas)
                           THEN Append(acc.cleared, canvas) ELSE acc.cleared,
              bitmaps  |-> Append(acc.bitmaps,
                                  [id |-> id, canvas |-> canvas,
                                   width |-> CanvasWidth(canvas),
                                   height |-> CanvasHeight(canvas)]),
              captured |-> Append(acc.captured, id),
              trace    |-> acc.trace
                           \o << [step |-> "mark", id |-> id] >>
                           \o (IF /\ ~isManualSnapshot
                                  /\ ContextOf(canvas) \in {"webgl", "webgl2"}
                                  /\ ~PreservesBuffer(canvas)
                               THEN << [step |-> "clear", id |-> id] >> ELSE << >>)
                           \o << [step |-> "capture", id |-> id] >>]

\* mutation: the color buffer is cleared whatever preserveDrawingBuffer says
SnapshotCanvas_ClearsWhenPreserved(acc, canvas, isManualSnapshot) ==
    LET id == mirror[canvas]
    IN  IF \/ id = NoId
           \/ CanvasWidth(canvas) = 0
           \/ CanvasHeight(canvas) = 0
           \/ InProgress(acc.map, id)
        THEN acc
        ELSE [map      |-> MapSet(acc.map, id, TRUE),
              cleared  |-> IF /\ ~isManualSnapshot
                              /\ ContextOf(canvas) \in {"webgl", "webgl2"}
                           THEN Append(acc.cleared, canvas) ELSE acc.cleared,
              bitmaps  |-> Append(acc.bitmaps,
                                  [id |-> id, canvas |-> canvas,
                                   width |-> CanvasWidth(canvas),
                                   height |-> CanvasHeight(canvas)]),
              captured |-> Append(acc.captured, id),
              trace    |-> acc.trace
                           \o << [step |-> "mark", id |-> id] >>
                           \o (IF /\ ~isManualSnapshot
                                  /\ ContextOf(canvas) \in {"webgl", "webgl2"}
                                   THEN << [step |-> "clear", id |-> id] >> ELSE << >>)
                           \o << [step |-> "capture", id |-> id] >>]

\* mutation: only the width of the canvas is tested
SnapshotCanvas_IgnoresHeight(acc, canvas, isManualSnapshot) ==
    LET id == mirror[canvas]
    IN  IF \/ id = NoId
           \/ CanvasWidth(canvas) = 0
           \/ InProgress(acc.map, id)
        THEN acc
        ELSE [map      |-> MapSet(acc.map, id, TRUE),
              cleared  |-> IF /\ ~isManualSnapshot
                              /\ ContextOf(canvas) \in {"webgl", "webgl2"}
                              /\ ~PreservesBuffer(canvas)
                           THEN Append(acc.cleared, canvas) ELSE acc.cleared,
              bitmaps  |-> Append(acc.bitmaps,
                                  [id |-> id, canvas |-> canvas,
                                   width |-> CanvasWidth(canvas),
                                   height |-> CanvasHeight(canvas)]),
              captured |-> Append(acc.captured, id),
              trace    |-> acc.trace
                           \o << [step |-> "mark", id |-> id] >>
                           \o (IF /\ ~isManualSnapshot
                                  /\ ContextOf(canvas) \in {"webgl", "webgl2"}
                                  /\ ~PreservesBuffer(canvas)
                               THEN << [step |-> "clear", id |-> id] >> ELSE << >>)
                           \o << [step |-> "capture", id |-> id] >>]

\* the body of canvases.forEach in takeSnapshot;
\* acc = [map, bitmaps, captured, cleared, trace]: trace lists what the pass did
\* in the order it did it (mark in flight, clear the color buffer, request the
\* bitmap capture)
SnapshotCanvas(acc, canvas, isManualSnapshot) ==
    LET id == mirror[canvas]
    IN  IF \/ id = NoId
           \/ CanvasWidth(canvas) = 0
           \/ CanvasHeight(canvas) = 0
           \/ InProgress(acc.map, id)
        THEN acc
        ELSE [map      |-> MapSet(acc.map, id, TRUE),
              cleared  |-> IF /\ ~isManualSnapshot
                              /\ ContextOf(canvas) \in {"webgl", "webgl2"}
                              /\ ~PreservesBuffer(canvas)
                           THEN Append(acc.cleared, canvas) ELSE acc.cleared,
              bitmaps  |-> Append(acc.bitmaps,
                                  [id |-> id, canvas |-> canvas,
                                   width |-> CanvasWidth(canvas),
                                   height |-> CanvasHeight(canvas)]),
              captured |-> Append(acc.captured, id),
              trace    |-> acc.trace
                           \o << [step |-> "mark", id |-> id] >>
                           \o (IF /\ ~isManualSnapshot
                                  /\ ContextOf(canvas) \in {"webgl", "webgl2"}
                                  /\ ~PreservesBuffer(canvas)
                               THEN << [step |-> "clear", id |-> id] >> ELSE << >>)
                           \o << [step |-> "capture", id |-> id] >>]

\* mutation: the in-flight test sees the map as it was when the pass began
RECURSIVE SnapshotEach_ChecksMapAtPassStart(_, _, _)
SnapshotEach_ChecksMapAtPassStart(canvases, acc, isManualSnapshot) ==
    IF canvases = << >>
    THEN acc
    ELSE LET id   == mirror[Head(canvases)]
             seen == IF \E k \in 1..Len(acc.captured) : acc.captured[k] = id
                     THEN [acc EXCEPT !.map = MapDelete(@, id)] ELSE acc
         IN  SnapshotEach_ChecksMapAtPassStart(
                 Tail(canvases),
                 SnapshotCanvas(seen, Head(canvases), isManualSnapshot),
                 isManualSnapshot)

RECURSIVE SnapshotEach(_, _, _)
SnapshotEach(canvases, acc, isManualSnapshot) ==
    IF canvases = << >>
    THEN acc
    ELSE SnapshotEach(Tail(canvases),
                      SnapshotCanvas(acc, Head(canvases), isManualSnapshot),
                      isManualSnapshot)

Fps == IF options.sampling = "all" THEN 2
       ELSE IF options.samplingRate = 0 THEN 2 ELSE options.samplingRate

\* mutation: only a second call at the same timestamp is throttled
ShouldThrottle_SameTimestampOnly(last, timestamp) ==
    last # 0 /\ timestamp = last

\* timestamp - lastSnapshotTime < 1000 / fps, and lastSnapshotTime is truthy
ShouldThrottle(last, timestamp) ==
    last # 0 /\ (timestamp - last) * Fps < 1000

\* mutation: lastSnapshotTime is updated before the throttle returns
TakeSnapshot_StampsWhenThrottled(st, timestamp, isManualSnapshot, canvasElement) ==
    IF ShouldThrottle(st.last, timestamp)
    THEN [st EXCEPT !.last = timestamp,
                    !.calls = Append(@, [timestamp |-> timestamp,
                                         manual    |-> isManualSnapshot,
                                         canvas    |-> canvasElement,
                                         after     |-> st.taken,
                                         result    |-> "throttled",
                                         captured  |-> << >>,
                                         cleared   |-> << >>,
                                         trace     |-> << >>])]
    ELSE LET canvases == IF canvasElement # "none"
                         THEN << canvasElement >> ELSE GetCanvasElements
             acc == SnapshotEach(canvases,
                                 [map |-> st.map, bitmaps |-> st.bitmaps,
                                  captured |-> << >>, cleared |-> << >>,
                                  trace |-> << >>],
                                 isManualSnapshot)
         IN  [last    |-> timestamp,
              map     |-> acc.map,
              bitmaps |-> acc.bitmaps,
              taken   |-> timestamp,
              calls   |-> Append(st.calls, [timestamp |-> timestamp,
                                            manual    |-> isManualSnapshot,
                                            canvas    |-> canvasElement,
                                            after     |-> st.taken,
                                            result    |-> "taken",
                                            captured  |-> acc.captured,
                                            cleared   |-> acc.cleared,
                                            trace     |-> acc.trace])]

\* mutation: a pass that captures nothing leaves lastSnapshotTime alone
TakeSnapshot_StampsOnlyWhenCaptured(st, timestamp, isManualSnapshot, canvasElement) ==
    IF ShouldThrottle(st.last, timestamp)
    THEN [st EXCEPT !.calls = Append(@, [timestamp |-> timestamp,
                                         manual    |-> isManualSnapshot,
                                         canvas    |-> canvasElement,
                                         after     |-> st.taken,
                                         result    |-> "throttled",
                                         captured  |-> << >>,
                                         cleared   |-> << >>,
                                         trace     |-> << >>])]
    ELSE LET canvases == IF canvasElement # "none"
                         THEN << canvasElement >> ELSE GetCanvasElements
             acc == SnapshotEach(canvases,
                                 [map |-> st.map, bitmaps |-> st.bitmaps,
                                  captured |-> << >>, cleared |-> << >>,
                                  trace |-> << >>],
                                 isManualSnapshot)
         IN  [last    |-> IF acc.captured = << >> THEN st.last ELSE timestamp,
              map     |-> acc.map,
              bitmaps |-> acc.bitmaps,
              taken   |-> timestamp,
              calls   |-> Append(st.calls, [timestamp |-> timestamp,
                                            manual    |-> isManualSnapshot,
                                            canvas    |-> canvasElement,
                                            after     |-> st.taken,
                                            result    |-> "taken",
                                            captured  |-> acc.captured,
                                            cleared   |-> acc.cleared,
                                            trace     |-> acc.trace])]

\* st = [last, map, bitmaps, taken, calls]: lastSnapshotTime, snapshotInProgressMap,
\* the captures requested, the time of the last taken snapshot, and a record
\* of every takeSnapshot call of the running step
TakeSnapshot(st, timestamp, isManualSnapshot, canvasElement) ==
    IF ShouldThrottle(st.last, timestamp)
    THEN [st EXCEPT !.calls = Append(@, [timestamp |-> timestamp,
                                         manual    |-> isManualSnapshot,
                                         canvas    |-> canvasElement,
                                         after     |-> st.taken,
                                         result    |-> "throttled",
                                         captured  |-> << >>,
                                         cleared   |-> << >>,
                                         trace     |-> << >>])]
    ELSE LET canvases == IF canvasElement # "none"
                         THEN << canvasElement >> ELSE GetCanvasElements
             acc == SnapshotEach(canvases,
                                 [map |-> st.map, bitmaps |-> st.bitmaps,
                                  captured |-> << >>, cleared |-> << >>,
                                  trace |-> << >>],
                                 isManualSnapshot)
         IN  [last    |-> timestamp,
              map     |-> acc.map,
              bitmaps |-> acc.bitmaps,
              taken   |-> timestamp,
              calls   |-> Append(st.calls, [timestamp |-> timestamp,
                                            manual    |-> isManualSnapshot,
                                            canvas    |-> canvasElement,
                                            after     |-> st.taken,
                                            result    |-> "taken",
                                            captured  |-> acc.captured,
                                            cleared   |-> acc.cleared,
                                            trace     |-> acc.trace])]

SnapshotState ==
    [last |-> lastSnapshotTime, map |-> snapshotInProgressMap,
     bitmaps |-> bitmapPending, taken |-> lastTaken, calls |-> << >>]

\* the one-shot callbacks snapshot() left for the next animation frame
RECURSIVE RunDeferred(_, _, _)
RunDeferred(deferred, st, timestamp) ==
    IF deferred = << >>
    THEN st
    ELSE RunDeferred(Tail(deferred),
                     TakeSnapshot(st, timestamp, TRUE, Head(deferred)),
                     timestamp)

\* an animation frame, its callbacks in the order they were requested: the
\* timestamp loop (constructor) if it is scheduled, the callback of the periodic
\* snapshot loop if it is scheduled, then the deferred snapshots
AnimationFrame ==
    LET timestamp == now + FrameStep
        looped    == IF "fps" \in rafLoops
                     THEN TakeSnapshot(SnapshotState, timestamp, FALSE, "none")
                     ELSE SnapshotState
        st        == RunDeferred(rafOnce, looped, timestamp)
    IN  /\ now < MaxFrames * FrameStep
        /\ now' = timestamp
        /\ rafStamps' = IF "timestamp" \in rafLoops
                        THEN [rafStamps EXCEPT !.latestId = timestamp]
                        ELSE rafStamps
        /\ rafOnce' = << >>
        /\ lastSnapshotTime' = st.last
        /\ snapshotInProgressMap' = st.map
        /\ bitmapPending' = st.bitmaps
        /\ lastTaken' = st.taken
        /\ lastCall' = [op |-> "animationFrame", calls |-> st.calls]
        /\ UNCHANGED << options, dom, replayer, pendingCanvasMutations, intakeCount, registryVars,
                        gateVars, worker, mirror, rafLoops, workerInbox, snapshotCalls,
                        emitted, errors >>

\* what a snapshot() call did, for the record
SnapshotCall(canvasElement, skipRequestAnimationFrame, calls) ==
    [op |-> "snapshot", canvas |-> canvasElement, skip |-> skipRequestAnimationFrame,
     calls |-> calls]

\* mutation: the pipeline runs inside the call whatever the options say
Snapshot_AlwaysSynchronous(canvasElement, skipRequestAnimationFrame) ==
    /\ snapshotCalls < MaxManual
    /\ snapshotCalls' = snapshotCalls + 1
    /\ LET st == TakeSnapshot(SnapshotState, now, TRUE, canvasElement)
       IN  /\ lastSnapshotTime' = st.last
           /\ snapshotInProgressMap' = st.map
           /\ bitmapPending' = st.bitmaps
           /\ lastTaken' = st.taken
           /\ lastCall' = SnapshotCall(canvasElement, skipRequestAnimationFrame, st.calls)
           /\ UNCHANGED rafOnce
    /\ UNCHANGED << options, dom, replayer, bufferVars, registryVars, gateVars, worker, mirror, now,
                    rafLoops, workerInbox, emitted, errors >>

\* snapshot(canvasElement, options); canvasElement "none" when it is omitted
Snapshot(canvasElement, skipRequestAnimationFrame) ==
    /\ snapshotCalls < MaxManual
    /\ snapshotCalls' = snapshotCalls + 1
    /\ IF skipRequestAnimationFrame
       THEN LET st == TakeSnapshot(SnapshotState, now, TRUE, canvasElement)
            IN  /\ lastSnapshotTime' = st.last
                /\ snapshotInProgressMap' = st.map
                /\ bitmapPending' = st.bitmaps
                /\ lastTaken' = st.taken
                /\ lastCall' = SnapshotCall(canvasElement, TRUE, st.calls)
                /\ UNCHANGED rafOnce
       ELSE /\ rafOnce' = Append(rafOnce, canvasElement)
            /\ lastCall' = SnapshotCall(canvasElement, FALSE, << >>)
            /\ UNCHANGED << lastSnapshotTime, snapshotInProgressMap, bitmapPending,
                            lastTaken >>
    /\ UNCHANGED << options, dom, replayer, bufferVars, registryVars, gateVars, worker, mirror, now,
                    rafLoops, workerInbox, emitted, errors >>

RemoveAt(seq, i) == SubSeq(seq, 1, i - 1) \o SubSeq(seq, i + 1, Len(seq))

\* mutation: the bitmap is posted whether or not there is a worker
BitmapResolved_PostsWithoutWorker(i) ==
    LET capture == bitmapPending[i]
    IN  /\ i \in 1..Len(bitmapPending)
        /\ bitmapPending' = RemoveAt(bitmapPending, i)
        /\ workerInbox' = Append(workerInbox, [id     |-> capture.id,
                                               bitmap |-> capture.canvas,
                                               width  |-> capture.width,
                                               height |-> capture.height])
        /\ lastCall' = [op |-> "bitmapResolved", id |-> capture.id]
        /\ UNCHANGED << options, dom, replayer, bufferVars, registryVars, gateVars,
                        snapshotInProgressMap, lastSnapshotTime, snapshotCalls, lastTaken,
                        worker, mirror, now, rafLoops, rafOnce, emitted, errors >>

\* createImageBitmap(canvas) resolves: the bitmap is posted to the worker
BitmapResolved(i) ==
    LET capture == bitmapPending[i]
    IN  /\ i \in 1..Len(bitmapPending)
        /\ bitmapPending' = RemoveAt(bitmapPending, i)
        /\ workerInbox' = IF worker # "null"
                          THEN Append(workerInbox, [id     |-> capture.id,
                                                    bitmap |-> capture.canvas,
                                                    width  |-> capture.width,
                                                    height |-> capture.height])
                          ELSE workerInbox
        /\ lastCall' = [op |-> "bitmapResolved", id |-> capture.id]
        /\ UNCHANGED << options, dom, replayer, bufferVars, registryVars, gateVars,
                        snapshotInProgressMap, lastSnapshotTime, snapshotCalls, lastTaken,
                        worker, mirror, now, rafLoops, rafOnce, emitted, errors >>

\* mutation: a failed capture leaves the canvas marked in flight
BitmapRejected_KeepsFlag(i) ==
    LET capture == bitmapPending[i]
    IN  /\ i \in 1..Len(bitmapPending)
        /\ bitmapPending' = RemoveAt(bitmapPending, i)
        /\ snapshotInProgressMap' = snapshotInProgressMap
        /\ errors' = errors + 1
        /\ lastCall' = [op |-> "bitmapRejected", id |-> capture.id]
        /\ UNCHANGED << options, dom, replayer, bufferVars, registryVars, gateVars, lastSnapshotTime,
                        workerInbox, snapshotCalls, lastTaken, worker, mirror, now,
                        rafLoops, rafOnce, emitted >>

\* createImageBitmap(canvas) rejects
BitmapRejected(i) ==
    LET capture == bitmapPending[i]
    IN  /\ i \in 1..Len(bitmapPending)
        /\ bitmapPending' = RemoveAt(bitmapPending, i)
        /\ snapshotInProgressMap' = MapDelete(snapshotInProgressMap, capture.id)
        /\ errors' = errors + 1
        /\ lastCall' = [op |-> "bitmapRejected", id |-> capture.id]
        /\ UNCHANGED << options, dom, replayer, bufferVars, registryVars, gateVars, lastSnapshotTime,
                        workerInbox, snapshotCalls, lastTaken, worker, mirror, now,
                        rafLoops, rafOnce, emitted >>

\* mutation: the image is drawn first and then wiped
SnapshotEvent_DrawsThenClears(data) ==
    [id       |-> data.id,
     type     |-> "2d",
     commands |-> << [property |-> "drawImage",
                      args     |-> << [rr_type |-> "ImageBitmap", base64 |-> data.base64,
                                       type |-> data.type],
                                      0, 0, data.width, data.height >>],
                     [property |-> "clearRect",
                      args     |-> << 0, 0, data.width, data.height >>] >>]

\* the event worker.onmessage emits for a reply that carries base64
SnapshotEvent(data) ==
    [id       |-> data.id,
     type     |-> "2d",
     commands |-> << [property |-> "clearRect",
                      args     |-> << 0, 0, data.width, data.height >>],
                     [property |-> "drawImage",
                      args     |-> << [rr_type |-> "ImageBitmap", base64 |-> data.base64,
                                       type |-> data.type],
                                      0, 0, data.width, data.height >>] >>]

\* mutation: a reply without base64 is emitted like any other
WorkerMessage_EmitsAlways(i, hasBase64) ==
    LET request == workerInbox[i]
        data    == [id |-> request.id, base64 |-> request.bitmap, type |-> "image/webp",
                    width |-> request.width, height |-> request.height]
    IN  /\ i \in 1..Len(workerInbox)
        /\ worker # "null"
        /\ workerInbox' = RemoveAt(workerInbox, i)
        /\ snapshotInProgressMap' = MapSet(snapshotInProgressMap, data.id, FALSE)
        /\ emitted' = Append(emitted, SnapshotEvent(data))
        /\ lastCall' = [op |-> "workerMessage", id |-> data.id, base64 |-> hasBase64,
                        reply |-> data]
        /\ UNCHANGED << options, dom, replayer, bufferVars, registryVars, gateVars, lastSnapshotTime,
                        bitmapPending, snapshotCalls, lastTaken, worker, mirror, now,
                        rafLoops, rafOnce, errors >>

\* mutation: a reply that arrives while frozen or locked is not emitted
WorkerMessage_GatedLikeFlush(i, hasBase64) ==
    LET request == workerInbox[i]
        data    == [id |-> request.id, base64 |-> request.bitmap, type |-> "image/webp",
                    width |-> request.width, height |-> request.height]
    IN  /\ i \in 1..Len(workerInbox)
        /\ worker # "null"
        /\ workerInbox' = RemoveAt(workerInbox, i)
        /\ snapshotInProgressMap' = MapSet(snapshotInProgressMap, data.id, FALSE)
        /\ emitted' = IF hasBase64 /\ ~frozen /\ ~locked
                      THEN Append(emitted, SnapshotEvent(data)) ELSE emitted
        /\ lastCall' = [op |-> "workerMessage", id |-> data.id, base64 |-> hasBase64,
                        reply |-> data]
        /\ UNCHANGED << options, dom, replayer, bufferVars, registryVars, gateVars,
                        lastSnapshotTime, bitmapPending, snapshotCalls, lastTaken,
                        worker, mirror, now, rafLoops, rafOnce, errors >>

\* worker.onmessage for the reply to the i-th request the worker holds;
\* hasBase64 is 'base64' in data (the worker omits it for an unchanged or
\* transparent image)
WorkerMessage(i, hasBase64) ==
    LET request == workerInbox[i]
        data    == [id |-> request.id, base64 |-> request.bitmap, type |-> "image/webp",
                    width |-> request.width, height |-> request.height]
    IN  /\ i \in 1..Len(workerInbox)
        /\ worker # "null"
        /\ workerInbox' = RemoveAt(workerInbox, i)
        /\ snapshotInProgressMap' = MapSet(snapshotInProgressMap, data.id, FALSE)
        /\ emitted' = IF hasBase64 THEN Append(emitted, SnapshotEvent(data)) ELSE emitted
        /\ lastCall' = [op |-> "workerMessage", id |-> data.id, base64 |-> hasBase64,
                        reply |-> data]
        /\ UNCHANGED << options, dom, replayer, bufferVars, registryVars, gateVars, lastSnapshotTime,
                        bitmapPending, snapshotCalls, lastTaken, worker, mirror, now,
                        rafLoops, rafOnce, errors >>

----------------------------------------------------------------------------
(* Snapshotting at a numeric sampling rate, with or without manual-only mode *)

InitSnapshot ==
    /\ \E manual \in BOOLEAN : Construct(SnapshotOptions(manual))
    /\ dom = PlainDom /\ replayer = NoReplayer

NextSnapshot ==
    \/ Reset
    \/ \E win \in Windows : AddWindow(win)
    \/ \E shadowRoot \in ShadowRoots : AddShadowRoot(shadowRoot)
    \/ AnimationFrame
    \/ \E canvasElement \in Canvases \cup {"none"}, skip \in BOOLEAN :
          Snapshot(canvasElement, skip)
    \/ \E i \in 1..Len(bitmapPending) : BitmapResolved(i)
    \/ \E i \in 1..Len(bitmapPending) : BitmapRejected(i)
    \/ \E i \in 1..Len(workerInbox), hasBase64 \in BOOLEAN : WorkerMessage(i, hasBase64)

SnapshotSpec == InitSnapshot /\ [][NextSnapshot]_vars

----------------------------------------------------------------------------
(* Properties of the pending buffer and its flush *)

\* the events the step from the current state to the next one emits
NewEvents == SubSeq(emitted', Len(emitted) + 1, Len(emitted'))

\* event carries exactly the records of values, in their order
CarriesQueue(event, values) ==
    /\ Len(event.commands) = Len(values)
    /\ \A k \in 1..Len(values) :
          /\ event.commands[k].property = values[k].property
          /\ event.commands[k].args = values[k].args

EventsFor(events, id) == {j \in 1..Len(events) : events[j].id = id}

\* C1: with frozen and locked both false, one flush pass calls the mutation
\* callback exactly once for every canvas that has pending records and a valid
\* id, the event carries all of the canvas's pending records in intake order,
\* and the canvas is absent from the pending buffer afterwards.
C1_FlushEmitsOncePerCanvas ==
    [][ (lastCall'.op = "flush" /\ ~frozen /\ ~locked) =>
          /\ SubSeq(emitted', 1, Len(emitted)) = emitted
          /\ \A i \in 1..Len(pendingCanvasMutations) :
                LET entry == pendingCanvasMutations[i]
                IN  mirror[entry.key] # NoId =>
                      /\ Cardinality(EventsFor(NewEvents, mirror[entry.key])) = 1
                      /\ \A j \in EventsFor(NewEvents, mirror[entry.key]) :
                            CarriesQueue(NewEvents[j], entry.value)
                      /\ ~MapHas(pendingCanvasMutations', entry.key)
          /\ \A j \in 1..Len(NewEvents) :
                \E i \in 1..Len(pendingCanvasMutations) :
                   mirror[pendingCanvasMutations[i].key] = NewEvents[j].id
    ]_vars

\* a flush pass with both gates clear has just emitted one event for each of
\* two canvases, one of them carrying two records, and the buffer is empty
C1_Witness ==
    /\ lastCall.op = "flush" /\ ~frozen /\ ~locked
    /\ Len(emitted) = lastCall.emittedBefore + 2
    /\ emitted[Len(emitted)].id # emitted[Len(emitted) - 1].id
    /\ \E j \in {Len(emitted) - 1, Len(emitted)} : Len(emitted[j].commands) = 2
    /\ pendingCanvasMutations = << >>

\* the intake serial numbers of the records of events[j], in order
Serials(event) == [k \in 1..Len(event.commands) |-> event.commands[k].args[1]]

\* C2: no intaken record is emitted twice, and the records of one canvas are
\* emitted in intake order within an event and across its successive events.
C2_NoDuplicationNoReordering ==
    /\ \A i, j \in 1..Len(emitted) :
          \A k \in 1..Len(emitted[i].commands), l \in 1..Len(emitted[j].commands) :
             (i # j \/ k # l) => Serials(emitted[i])[k] # Serials(emitted[j])[l]
    /\ \A i \in 1..Len(emitted) :
          \A k, l \in 1..Len(emitted[i].commands) :
             k < l => Serials(emitted[i])[k] < Serials(emitted[i])[l]
    /\ \A i, j \in 1..Len(emitted) :
          (i < j /\ emitted[i].id = emitted[j].id) =>
             \A k \in 1..Len(emitted[i].commands), l \in 1..Len(emitted[j].commands) :
                Serials(emitted[i])[k] < Serials(emitted[j])[l]

\* one canvas has been emitted in two successive events, the first one
\* carrying two records
C2_Witness ==
    \E i, j \in 1..Len(emitted) :
       /\ i < j
       /\ emitted[i].id = emitted[j].id
       /\ Len(emitted[i].commands) = 2

\* C4: while frozen, a flush pass emits nothing and leaves the pending buffer
\* unchanged, and intake still appends its record; a flush pass with frozen
\* and locked both false emits the complete queue of every canvas with a
\* valid id.
C4_FreezeInhibitsFlushNotIntake ==
    [][ /\ (lastCall'.op = "flush" /\ frozen) =>
              /\ emitted' = emitted
              /\ pendingCanvasMutations' = pendingCanvasMutations
        /\ (lastCall'.op = "processMutation" /\ frozen) =>
              LET canvas == lastCall'.canvas
                  before == IF MapHas(pendingCanvasMutations, canvas)
                            THEN MapValue(pendingCanvasMutations, canvas) ELSE << >>
              IN  /\ MapHas(pendingCanvasMutations', canvas)
                  /\ Len(MapValue(pendingCanvasMutations', canvas)) = Len(before) + 1
                  /\ SubSeq(MapValue(pendingCanvasMutations', canvas), 1, Len(before))
                        = before
        /\ (lastCall'.op = "flush" /\ ~frozen /\ ~locked) =>
              \A i \in 1..Len(pendingCanvasMutations) :
                 LET entry == pendingCanvasMutations[i]
                 IN  mirror[entry.key] # NoId =>
                        \E j \in 1..Len(NewEvents) :
                           /\ NewEvents[j].id = mirror[entry.key]
                           /\ CarriesQueue(NewEvents[j], entry.value)
    ]_vars

\* a flush pass has just run while frozen (and not locked) over a canvas with
\* a valid id whose queue holds two records: nothing was emitted
C4_Witness ==
    /\ lastCall.op = "flush" /\ frozen /\ ~locked
    /\ emitted = << >>
    /\ \E i \in 1..Len(pendingCanvasMutations) :
          /\ mirror[pendingCanvasMutations[i].key] # NoId
          /\ Len(pendingCanvasMutations[i].value) = 2

\* C5: lock and unlock never change frozen, freeze and unfreeze never change
\* locked, and a flush pass emits for a canvas with pending records and a
\* valid id if and only if frozen and locked are both false.
C5_LockIsIndependentGate ==
    [][ /\ lastCall'.op \in {"lock", "unlock"} => frozen' = frozen
        /\ lastCall'.op \in {"freeze", "unfreeze"} => locked' = locked
        /\ lastCall'.op = "flush" =>
              \A i \in 1..Len(pendingCanvasMutations) :
                 LET id == mirror[pendingCanvasMutations[i].key]
                 IN  id # NoId =>
                       ((EventsFor(NewEvents, id) # {}) <=> (~frozen /\ ~locked))
    ]_vars

\* a flush pass has just run while locked but not frozen over a canvas with
\* pending records and a valid id: nothing was emitted
C5_Witness ==
    /\ lastCall.op = "flush" /\ locked /\ ~frozen
    /\ Len(emitted) = lastCall.emittedBefore
    /\ \E i \in 1..Len(pendingCanvasMutations) :
          mirror[pendingCanvasMutations[i].key] # NoId

----------------------------------------------------------------------------
(* Properties of the snapshot pipeline *)

\* the takeSnapshot calls of the last step, in order
Calls == IF lastCall.op \in {"animationFrame", "snapshot"} THEN lastCall.calls ELSE << >>

CallsOfStep == IF lastCall'.op \in {"animationFrame", "snapshot"}
               THEN lastCall'.calls ELSE << >>

InSeq(x, seq) == \E k \in 1..Len(seq) : seq[k] = x

CapturesOf(bitmaps, id) == Cardinality({i \in 1..Len(bitmaps) : bitmaps[i].id = id})

\* C6: with fps = 2, once a takeSnapshot has been taken at time t0 (t0 = 0
\* included), a non-manual takeSnapshot at time t is throttled and captures
\* nothing when t - t0 < 1000 / fps, and is taken when t - t0 >= 1000 / fps.
C6_ThrottledWithinInterval ==
    \A k \in 1..Len(Calls) :
       LET call == Calls[k]
       IN  (call.after # NeverTaken /\ ~call.manual) =>
              IF (call.timestamp - call.after) * 2 < 1000
              THEN call.result = "throttled" /\ call.captured = << >>
              ELSE call.result = "taken"

\* C7: a takeSnapshot call with manual = true is never throttled.
C7_ManualNeverThrottled ==
    \A k \in 1..Len(Calls) : Calls[k].manual => Calls[k].result = "taken"

\* C8: a step whose takeSnapshot calls are all throttled changes neither
\* lastSnapshotTime, the in-flight map, the pending buffer nor the registry,
\* issues no WebGL clear, requests no bitmap capture and posts nothing to the
\* worker.
C8_ThrottledHasNoSideEffects ==
    [][ (/\ CallsOfStep # << >>
         /\ \A k \in 1..Len(CallsOfStep) : CallsOfStep[k].result = "throttled") =>
           /\ lastSnapshotTime' = lastSnapshotTime
           /\ snapshotInProgressMap' = snapshotInProgressMap
           /\ pendingCanvasMutations' = pendingCanvasMutations
           /\ windows' = windows /\ windowsSet' = windowsSet /\ shadowDoms' = shadowDoms
           /\ bitmapPending' = bitmapPending
           /\ workerInbox' = workerInbox
           /\ \A k \in 1..Len(CallsOfStep) :
                 CallsOfStep[k].cleared = << >> /\ CallsOfStep[k].captured = << >>
    ]_vars

\* a takeSnapshot call has just been throttled although discovery finds a
\* tracked canvas that is not in flight
C8_Witness ==
    /\ \E k \in 1..Len(Calls) : Calls[k].result = "throttled"
    /\ \E k \in 1..Len(GetCanvasElements) :
          /\ mirror[GetCanvasElements[k]] # NoId
          /\ ~InProgress(snapshotInProgressMap, mirror[GetCanvasElements[k]])

\* C9: a takeSnapshot pass leaves out every canvas whose id is marked in
\* flight: no WebGL clear, no bitmap capture for it, and its flag stays true.
C9_InFlightCanvasExcluded ==
    [][ CallsOfStep # << >> =>
          \A id \in Ids :
             InProgress(snapshotInProgressMap, id) =>
                /\ \A k \in 1..Len(CallsOfStep) :
                      /\ ~InSeq(id, CallsOfStep[k].captured)
                      /\ ~InSeq(CanvasOf(id), CallsOfStep[k].cleared)
                /\ CapturesOf(bitmapPending', id) = CapturesOf(bitmapPending, id)
                /\ InProgress(snapshotInProgressMap', id)
    ]_vars

\* a takeSnapshot pass that was not throttled has just left out a tracked
\* candidate canvas because its id is in flight
C9_Witness ==
    \E k \in 1..Len(Calls), canvas \in Canvases :
       /\ Calls[k].result = "taken"
       /\ \/ Calls[k].canvas = canvas
          \/ Calls[k].canvas = "none" /\ InSeq(canvas, GetCanvasElements)
       /\ mirror[canvas] # NoId
       /\ InProgress(snapshotInProgressMap, mirror[canvas])
       /\ ~InSeq(mirror[canvas], Calls[k].captured)

\* the snapshot requests for id that are outstanding: bitmap captures that
\* have not settled and requests the worker has not answered
Outstanding(id) == CapturesOf(bitmapPending, id) + CapturesOf(workerInbox, id)

\* C10 as claimed: in every reachable state, reset included, at most one
\* snapshot request per canvas id is outstanding.
C10_AtMostOneOutstanding ==
    \A id \in Ids : Outstanding(id) <= 1

\* C10: at most one request per canvas id is held by the worker unanswered,
\* and until reset is called (the worker is alive) at most one snapshot
\* request per canvas id is outstanding, pending bitmap captures included.
C10_AtMostOneOutstandingUntilReset ==
    \A id \in Ids :
       /\ CapturesOf(workerInbox, id) <= 1
       /\ worker # "null" => Outstanding(id) <= 1

\* before any reset, a takeSnapshot pass that was not throttled has just
\* captured nothing because one id is awaiting its bitmap and the other is
\* awaiting the worker's reply
C10_Witness ==
    /\ worker # "null"
    /\ \E k \in 1..Len(Calls) :
          Calls[k].result = "taken" /\ Calls[k].canvas = "none" /\ Calls[k].captured = << >>
    /\ \E id \in Ids : CapturesOf(bitmapPending, id) = 1
    /\ \E id \in Ids : CapturesOf(workerInbox, id) = 1

----------------------------------------------------------------------------
(* Delivery of the pending buffer *)

\* the record of the n-th intake has been handed to the mutation callback
Delivered(n) ==
    \E i \in 1..Len(emitted) :
       \E k \in 1..Len(emitted[i].commands) : emitted[i].commands[k].args = << n >>

----------------------------------------------------------------------------
(* The whole lifetime of a manager, in each of its three configurations:
   intake, frames, flushes, snapshots, the worker and reset *)

\* this specification's own, tighter limits on the intake calls and the
\* animation frames of one behaviour
LifeIntake == 1
LifeFrames == 1

InitLifecycle ==
    /\ \E opts \in {RecordAllOptions, SnapshotOptions(FALSE), SnapshotOptions(TRUE)} :
          Construct(opts)
    /\ dom = PlainDom /\ replayer = NoReplayer

NextLifecycle ==
    \/ Reset
    \/ \E win \in Windows : AddWindow(win)
    \/ \E shadowRoot \in ShadowRoots : shadowDoms = << >> /\ AddShadowRoot(shadowRoot)
    \/ \E target \in Canvases : intakeCount < LifeIntake /\ ProcessMutation(target)
    \/ FlushPendingCanvasMutations
    \/ now < LifeFrames * FrameStep /\ AnimationFrame
    \/ \E canvasElement \in Canvases \cup {"none"}, skip \in BOOLEAN :
          Snapshot(canvasElement, skip)
    \/ \E i \in 1..Len(bitmapPending) : BitmapResolved(i)
    \/ \E i \in 1..Len(bitmapPending) : BitmapRejected(i)
    \/ \E i \in 1..Len(workerInbox), hasBase64 \in BOOLEAN : WorkerMessage(i, hasBase64)

LifecycleSpec == InitLifecycle /\ [][NextLifecycle]_vars

----------------------------------------------------------------------------
(* The worker's replies *)

\* C11: a worker reply for id without a base64 field leaves id not in flight
\* (its flag is no longer true) and calls the mutation callback zero times
C11_ReplyWithoutBase64ClearsSilently ==
    [][ (lastCall'.op = "workerMessage" /\ ~lastCall'.base64)
        => /\ ~InProgress(snapshotInProgressMap', lastCall'.id)
           /\ emitted' = emitted ]_vars

C11_Witness ==
    /\ lastCall.op = "workerMessage"
    /\ ~lastCall.base64
    /\ MapHas(snapshotInProgressMap, lastCall.id)
    /\ MapValue(snapshotInProgressMap, lastCall.id) = FALSE

\* C12: a worker reply for id with base64 clears the in-flight flag of id and
\* emits exactly one event for id, with exactly two commands in this order:
\* clearRect at (0,0), then drawImage of the reply's image at (0,0) with the
\* reply's width and height
C12_ReplyWithBase64EmitsClearThenDraw ==
    [][ (lastCall'.op = "workerMessage" /\ lastCall'.base64)
        => /\ ~InProgress(snapshotInProgressMap', lastCall'.id)
           /\ Len(emitted') = Len(emitted) + 1
           /\ SubSeq(emitted', 1, Len(emitted)) = emitted
           /\ LET event == emitted'[Len(emitted')]
                  reply == lastCall'.reply
              IN  /\ event.id = lastCall'.id
                  /\ Len(event.commands) = 2
                  /\ event.commands[1].property = "clearRect"
                  /\ SubSeq(event.commands[1].args, 1, 2) = << 0, 0 >>
                  /\ event.commands[2].property = "drawImage"
                  /\ event.commands[2].args[1].rr_type = "ImageBitmap"
                  /\ event.commands[2].args[1].base64 = reply.base64
                  /\ SubSeq(event.commands[2].args, 2, 5)
                        = << 0, 0, reply.width, reply.height >> ]_vars

C12_Witness ==
    /\ lastCall.op = "workerMessage"
    /\ lastCall.base64
    /\ Len(emitted) >= 1
    /\ emitted[Len(emitted)].id = lastCall.id
    /\ MapHas(snapshotInProgressMap, lastCall.id)
    /\ MapValue(snapshotInProgressMap, lastCall.id) = FALSE

----------------------------------------------------------------------------
(* reset() *)

\* C13: immediately after reset() the pending buffer, the window list and
\* set, the shadow-root list, the in-flight map and the teardown-handler list
\* are empty and the worker reference is null
C13_ResetClearsEverything ==
    lastCall.op = "reset"
    => /\ pendingCanvasMutations = << >>
       /\ windows = << >>
       /\ windowsSet = {}
       /\ shadowDoms = << >>
       /\ snapshotInProgressMap = << >>
       /\ restoreHandlers = << >>
       /\ worker = "null"

C13_Witness ==
    /\ lastCall.op = "reset"
    /\ lastCall.terminated
    /\ lastCall.invoked # << >>
    /\ lastCall.before.windows > 0
    /\ lastCall.before.shadowDoms > 0
    /\ lastCall.before.inFlight > 0
    /\ windows = << >> /\ windowsSet = {} /\ shadowDoms = << >>
    /\ snapshotInProgressMap = << >> /\ restoreHandlers = << >> /\ worker = "null"

\* C14: after reset() the manager behaves as a newly constructed one with
\* the same options; so what intake, flush and takeSnapshot read (the two
\* gates, the time of the last snapshot, the worker) is as the constructor
\* leaves it
C14_ResetBehavesAsNew ==
    lastCall.op = "reset"
    => /\ frozen = FALSE
       /\ locked = FALSE
       /\ lastSnapshotTime = 0
       /\ worker = IF CreatesWorker(options) THEN "worker" ELSE "null"

\* C15: reset() is idempotent: a reset() called right after a reset() leaves
\* the manager as the first one left it, invokes no teardown handler and
\* terminates no worker
C15_ResetIsIdempotent ==
    [][ (lastCall.op = "reset" /\ lastCall'.op = "reset")
        => /\ lastCall'.invoked = << >>
           /\ lastCall'.caught = 0
           /\ ~lastCall'.terminated
           /\ UNCHANGED << options, dom, replayer, pendingCanvasMutations, rafStamps, shadowDoms,
                           windowsSet, windows, restoreHandlers, frozen, locked,
                           snapshotInProgressMap, worker, lastSnapshotTime, mirror, now,
                           rafLoops, rafOnce, bitmapPending, workerInbox, emitted,
                           errors, intakeCount, snapshotCalls, lastTaken >> ]_vars

C15_Witness ==
    /\ lastCall.op = "reset"
    /\ lastCall.again
    /\ lastCall.invoked = << >>
    /\ ~lastCall.terminated
    /\ restoreHandlers = << >>
    /\ worker = "null"

\* C16: reset() invokes every registered teardown handler exactly once, in
\* order, whichever of them throw; no exception leaves reset(), and the
\* registry, the worker and the in-flight map are cleared all the same
C16_ResetRunsEveryHandler ==
    [][ lastCall'.op = "reset"
        => /\ lastCall'.invoked = [i \in 1..Len(restoreHandlers) |-> i]
           /\ lastCall'.caught <= Len(restoreHandlers)
           /\ restoreHandlers' = << >>
           /\ windows' = << >>
           /\ windowsSet' = {}
           /\ shadowDoms' = << >>
           /\ worker' = "null"
           /\ snapshotInProgressMap' = << >> ]_vars

C16_Witness ==
    /\ lastCall.op = "reset"
    /\ lastCall.caught >= 1
    /\ Len(lastCall.invoked) >= 2
    /\ lastCall.terminated
    /\ lastCall.before.inFlight > 0
    /\ restoreHandlers = << >>
    /\ worker = "null"
    /\ snapshotInProgressMap = << >>
    /\ "fps" \notin rafLoops

\* C17: reset() stops all frame loops: once it has returned, neither the
\* timestamp loop nor the flush loop nor the periodic snapshot loop is
\* scheduled for a later animation frame
C17_ResetStopsAllLoops ==
    lastCall.op = "reset" => rafLoops = {}

----------------------------------------------------------------------------
(* A canvas without id at flush time *)

\* C18: a flush with frozen and locked false that reaches a canvas whose id
\* is -1 emits no event for it and removes its entry from the pending buffer
C18_FlushDropsCanvasWithoutId ==
    [][ (lastCall'.op = "flush" /\ ~frozen /\ ~locked)
        => \A canvas \in Canvases :
              (MapHas(pendingCanvasMutations, canvas) /\ mirror[canvas] = NoId)
              => /\ EventsFor(NewEvents, MirrorId(canvas)) = {}
                 /\ EventsFor(NewEvents, NoId) = {}
                 /\ ~MapHas(pendingCanvasMutations', canvas) ]_vars

----------------------------------------------------------------------------
(* Bitmap capture: failure and success *)

\* canvas is one of the canvases the takeSnapshot call looks at
IsCandidate(call, canvas) ==
    \/ call.canvas = canvas
    \/ call.canvas = "none" /\ InSeq(canvas, GetCanvasElements)

\* C19: when the bitmap capture of a canvas fails, the in-flight flag of its
\* id is cleared, the failure goes to the error channel, nothing is posted
\* to the worker, the other captures of the pass stay under way, and the
\* next pass that is not throttled and looks at the canvas captures it again
C19_CaptureFailureRecovers ==
    [][ /\ lastCall'.op = "bitmapRejected"
           => /\ ~InProgress(snapshotInProgressMap', lastCall'.id)
              /\ errors' = errors + 1
              /\ workerInbox' = workerInbox
              /\ emitted' = emitted
              /\ \A id \in Ids :
                    /\ CapturesOf(bitmapPending', id)
                          = CapturesOf(bitmapPending, id)
                               - (IF id = lastCall'.id THEN 1 ELSE 0)
                    /\ id # lastCall'.id
                       => InProgress(snapshotInProgressMap', id)
                             = InProgress(snapshotInProgressMap, id)
        /\ (/\ lastCall.op = "bitmapRejected"
            /\ CallsOfStep # << >>
            /\ CallsOfStep[1].result = "taken"
            /\ mirror[CanvasOf(lastCall.id)] = lastCall.id
            /\ IsCandidate(CallsOfStep[1], CanvasOf(lastCall.id)))
           => InSeq(lastCall.id, CallsOfStep[1].captured)
    ]_vars

\* a capture has just failed while the capture of another canvas of the
\* pass is still under way
C19_Witness ==
    /\ lastCall.op = "bitmapRejected"
    /\ errors >= 1
    /\ ~MapHas(snapshotInProgressMap, lastCall.id)
    /\ \E i \in 1..Len(bitmapPending) : bitmapPending[i].id # lastCall.id

\* C20: whenever the bitmap capture of a canvas that takeSnapshot marked in
\* flight succeeds, exactly one request with the canvas's id, the bitmap and
\* the canvas's width and height is posted to the worker, in every
\* configuration and at any point of the manager's lifetime
C20_CaptureSuccessPostsOneRequest ==
    [][ lastCall'.op = "bitmapResolved"
        => /\ Len(workerInbox') = Len(workerInbox) + 1
           /\ SubSeq(workerInbox', 1, Len(workerInbox)) = workerInbox
           /\ LET request == workerInbox'[Len(workerInbox')]
                  canvas  == CanvasOf(lastCall'.id)
              IN  /\ request.id = lastCall'.id
                  /\ request.bitmap = canvas
                  /\ request.width = CanvasWidth(canvas)
                  /\ request.height = CanvasHeight(canvas) ]_vars

----------------------------------------------------------------------------
(* The registry of windows *)

\* the teardown handlers addWindow registered for win
HandlersOf(win, kind) ==
    {i \in 1..Len(restoreHandlers) :
        restoreHandlers[i].win = win /\ restoreHandlers[i].kind = kind}

\* each window is at most once in the window list, the list and the
\* membership set hold the same windows, and a window's observers are
\* attached at most once
RegistryWellFormed ==
    /\ \A i, j \in 1..Len(windows) : windows[i] = windows[j] => i = j
    /\ {windows[i] : i \in 1..Len(windows)} = windowsSet
    /\ \A win \in Windows, kind \in {"mutationObserver", "contextObserver"} :
          Cardinality(HandlersOf(win, kind)) <= 1

\* C21: addWindow(win) for a window that is already registered changes
\* nothing; so in every reachable state each window is at most once in the
\* window list, the list and the membership set hold the same windows, and a
\* window's observers are attached at most once
C21_AddWindowIsIdempotent ==
    /\ []RegistryWellFormed
    /\ [][ (lastCall'.op = "addWindow" /\ lastCall'.known)
           => UNCHANGED << options, dom, replayer, pendingCanvasMutations, rafStamps, shadowDoms,
                           windowsSet, windows, restoreHandlers, frozen, locked,
                           snapshotInProgressMap, worker, lastSnapshotTime, mirror,
                           now, rafLoops, rafOnce, bitmapPending, workerInbox,
                           emitted, errors >> ]_vars

\* addWindow has just been called for a window that was registered already
C21_Witness ==
    /\ lastCall.op = "addWindow"
    /\ lastCall.known
    /\ windows = << lastCall.win >>
    /\ windowsSet = {lastCall.win}
    /\ Cardinality(HandlersOf(lastCall.win, "mutationObserver")) = 1

----------------------------------------------------------------------------
(* Discovery on a page with collected targets, cross-origin windows and
   blocked canvases *)

\* the garbage collector reclaims a window or a shadow root
Collect(target) ==
    /\ target \notin dom.collected
    /\ dom' = [dom EXCEPT !.collected = @ \cup {target}]
    /\ lastCall' = [op |-> "collect", target |-> target]
    /\ UNCHANGED << options, replayer, bufferVars, registryVars, gateVars, snapshotVars, worker,
                    mirror, now, rafLoops, rafOnce, emitted, errors >>

InitDiscovery ==
    /\ \E manual \in BOOLEAN : Construct(SnapshotOptions(manual))
    /\ dom \in [collected   : {{}},
                crossOrigin : SUBSET Windows,
                blocked     : SUBSET Canvases,
                preserving  : {{}},
                zeroWidth   : {{}},
                zeroHeight  : {{}}]
    /\ replayer = NoReplayer

NextDiscovery ==
    \/ \E target \in Windows \cup ShadowRoots : Collect(target)
    \/ \E shadowRoot \in ShadowRoots :
          /\ shadowRoot \notin dom.collected
          /\ shadowDoms = << >>
          /\ AddShadowRoot(shadowRoot)
    \/ now < LifeFrames * FrameStep /\ AnimationFrame
    \/ \E canvasElement \in Canvases \cup {"none"}, skip \in BOOLEAN :
          Snapshot(canvasElement, skip)
    \/ \E i \in 1..Len(bitmapPending) : BitmapResolved(i)

DiscoverySpec == InitDiscovery /\ [][NextDiscovery]_vars

\* canvas is in the document of a registered window
InWindow(canvas, i) == InSeq(canvas, DocumentCanvases(windows[i]))

\* canvas is under a registered shadow root
InShadowRoot(canvas, j) == InSeq(canvas, ShadowCanvases(shadowDoms[j]))

\* canvas is not blocked and sits in a registered window that is alive and
\* whose document can be read, or under a registered shadow root that is alive
Discoverable(canvas) ==
    /\ ~IsBlocked(canvas)
    /\ \/ \E i \in 1..Len(windows) :
             /\ InWindow(canvas, i)
             /\ windows[i] \notin dom.collected
             /\ windows[i] \notin dom.crossOrigin
       \/ \E j \in 1..Len(shadowDoms) :
             InShadowRoot(canvas, j) /\ shadowDoms[j] \notin dom.collected

\* the takeSnapshot call captured every discoverable canvas with a valid id
\* that was not in flight
CapturedAllDiscoverable(call) ==
    \A canvas \in Canvases :
       (/\ Discoverable(canvas)
        /\ mirror[canvas] # NoId
        /\ ~InProgress(snapshotInProgressMap, mirror[canvas]))
       => InSeq(mirror[canvas], call.captured)

\* the step's first takeSnapshot call was taken and searched for canvases
SearchedInStep ==
    /\ CallsOfStep # << >>
    /\ CallsOfStep[1].result = "taken"
    /\ CallsOfStep[1].canvas = "none"

\* C22: discovery skips a registered window or shadow root that has been
\* garbage-collected: a canvas found only under collected targets is no
\* candidate, and the canvases of the live windows and shadow roots are
\* still discovered
C22_CollectedTargetsAreSkipped ==
    [][ SearchedInStep
        => /\ \A canvas \in Canvases :
                 (/\ \A i \in 1..Len(windows) :
                        InWindow(canvas, i) => windows[i] \in dom.collected
                  /\ \A j \in 1..Len(shadowDoms) :
                        InShadowRoot(canvas, j) => shadowDoms[j] \in dom.collected)
                 => ~InSeq(mirror[canvas], CallsOfStep[1].captured)
           /\ CapturedAllDiscoverable(CallsOfStep[1]) ]_vars

\* a search has just passed over the collected window and captured the
\* canvas of the live shadow root
C22_Witness ==
    /\ Calls # << >>
    /\ Calls[1].result = "taken"
    /\ Calls[1].canvas = "none"
    /\ "win" \in dom.collected
    /\ windows = << "win" >>
    /\ Calls[1].captured = << mirror["canvasB"] >>

\* C23: the security error thrown when discovery reads the document of a
\* cross-origin window is caught: the window contributes no canvas, and the
\* remaining windows and all shadow roots are searched
C23_SecurityErrorIsCaught ==
    [][ SearchedInStep
        => /\ \A canvas \in Canvases :
                 (/\ \A i \in 1..Len(windows) :
                        InWindow(canvas, i) => windows[i] \in dom.crossOrigin
                  /\ \A j \in 1..Len(shadowDoms) : ~InShadowRoot(canvas, j))
                 => ~InSeq(mirror[canvas], CallsOfStep[1].captured)
           /\ CapturedAllDiscoverable(CallsOfStep[1])
           /\ lastSnapshotTime' = CallsOfStep[1].timestamp ]_vars

\* a search has just passed over the live cross-origin window and captured
\* the canvas of the shadow root
C23_Witness ==
    /\ Calls # << >>
    /\ Calls[1].result = "taken"
    /\ Calls[1].canvas = "none"
    /\ "win" \in dom.crossOrigin
    /\ "win" \notin dom.collected
    /\ windows = << "win" >>
    /\ Calls[1].captured = << mirror["canvasB"] >>

\* C25: a canvas for which the block predicate holds is never a snapshot
\* candidate: takeSnapshot never marks or captures it, whether the
\* candidates come from discovery or from the canvas passed to snapshot()
C25_BlockedCanvasNeverCaptured ==
    [][ \A k \in 1..Len(CallsOfStep), canvas \in Canvases :
           IsBlocked(canvas) => ~InSeq(mirror[canvas], CallsOfStep[k].captured) ]_vars

----------------------------------------------------------------------------
(* snapshot() *)

\* C24: snapshot(canvas, options) with skipRequestAnimationFrame runs the
\* pipeline inside the call, with manual = true and the current time;
\* without it the call changes no state of the manager, and the pipeline
\* runs exactly once, on the next animation frame, with that frame's timestamp
C24_SnapshotRunsNowOrNextFrame ==
    [][ /\ (lastCall'.op = "snapshot" /\ lastCall'.skip)
           => /\ Len(lastCall'.calls) = 1
              /\ lastCall'.calls[1].manual
              /\ lastCall'.calls[1].timestamp = now
              /\ lastCall'.calls[1].canvas = lastCall'.canvas
              /\ rafOnce' = rafOnce
        /\ (lastCall'.op = "snapshot" /\ ~lastCall'.skip)
           => /\ lastCall'.calls = << >>
              /\ rafOnce' = Append(rafOnce, lastCall'.canvas)
              /\ UNCHANGED << pendingCanvasMutations, rafStamps, shadowDoms, windowsSet,
                              windows, restoreHandlers, frozen, locked,
                              snapshotInProgressMap, worker, lastSnapshotTime,
                              bitmapPending, workerInbox, emitted, errors >>
        /\ lastCall'.op = "animationFrame"
           => LET looped == IF "fps" \in rafLoops THEN 1 ELSE 0
              IN  /\ rafOnce' = << >>
                  /\ Len(lastCall'.calls) = looped + Len(rafOnce)
                  /\ \A j \in 1..Len(rafOnce) :
                        /\ lastCall'.calls[looped + j].manual
                        /\ lastCall'.calls[looped + j].canvas = rafOnce[j]
                        /\ lastCall'.calls[looped + j].timestamp = now'
    ]_vars

\* an animation frame has just run the pipeline of a deferred snapshot()
C24_Witness ==
    /\ lastCall.op = "animationFrame"
    /\ rafOnce = << >>
    /\ \E k \in 1..Len(lastCall.calls) :
          /\ lastCall.calls[k].manual
          /\ lastCall.calls[k].timestamp = now
          /\ lastCall.calls[k].result = "taken"

----------------------------------------------------------------------------
(* The replayer's search for the current event (packages/rrweb/src/replay) *)

MaxEvents  == 3                     \* length of the event list
Timestamps == 1..3                  \* the events' timestamps
Times      == 0..4                  \* the replayer's current time

IsSorted(events) ==
    \A i \in 1..Len(events) - 1 : events[i].timestamp <= events[i + 1].timestamp

EventLists ==
    {events \in UNION {[1..n -> [timestamp : Timestamps]] : n \in 0..MaxEvents} :
        IsSorted(events)}

\* mutation: the search goes left after a match and finds the first occurrence
RECURSIVE BinarySearchEventIndex_GoesLeft(_, _, _, _, _)
BinarySearchEventIndex_GoesLeft(events, currentTime, low, high, result) ==
    IF low > high
    THEN result
    ELSE LET mid == (low + high) \div 2
         IN  IF events[mid + 1].timestamp <= currentTime
             THEN BinarySearchEventIndex_GoesLeft(events, currentTime, low, mid - 1, mid)
             ELSE BinarySearchEventIndex_GoesLeft(events, currentTime, low, mid - 1, result)

\* binary search over the indices low..high (counted from 0, as in the
\* program) for the last event at or before currentTime; result is the best
\* index found so far
RECURSIVE BinarySearchEventIndex(_, _, _, _, _)
BinarySearchEventIndex(events, currentTime, low, high, result) ==
    IF low > high
    THEN result
    ELSE LET mid == (low + high) \div 2
         IN  IF events[mid + 1].timestamp <= currentTime
             THEN BinarySearchEventIndex(events, currentTime, mid + 1, high, mid)
             ELSE BinarySearchEventIndex(events, currentTime, low, mid - 1, result)

\* getCurrentEventIndex(events, currentTime)
GetCurrentEventIndex ==
    /\ replayer.index = NoIndex
    /\ replayer' = [replayer EXCEPT !.index =
                       BinarySearchEventIndex(replayer.events, replayer.currentTime,
                                              0, Len(replayer.events) - 1, 0 - 1)]
    /\ lastCall' = [op |-> "getCurrentEventIndex"]
    /\ UNCHANGED << options, dom, bufferVars, registryVars, gateVars, snapshotVars,
                    worker, mirror, now, rafLoops, rafOnce, emitted, errors >>

InitReplayer ==
    /\ Construct(RecordAllOptions)
    /\ dom = PlainDom
    /\ replayer \in [events : EventLists, currentTime : Times, index : {NoIndex}]

NextReplayer == GetCurrentEventIndex

ReplayerSpec == InitReplayer /\ [][NextReplayer]_vars

\* C26: for every list of events sorted by timestamp and every current time
\* the search returns the largest index i (from 0) with events[i].timestamp
\* <= currentTime, the last one when timestamps repeat, and -1 when the list
\* is empty or every event is later
C26_SearchFindsLastEventAtOrBefore ==
    replayer.index # NoIndex
    => LET events == replayer.events
           atOrBefore == {i \in 0..Len(events) - 1 :
                             events[i + 1].timestamp <= replayer.currentTime}
       IN  IF atOrBefore = {}
           THEN replayer.index = 0 - 1
           ELSE /\ replayer.index \in atOrBefore
                /\ \A i \in atOrBefore : i <= replayer.index

\* the search has just found the last of several events with the same
\* timestamp, with a later event behind them
C26_Witness ==
    /\ lastCall.op = "getCurrentEventIndex"
    /\ Len(replayer.events) = 3
    /\ replayer.events[1].timestamp = replayer.currentTime
    /\ replayer.events[2].timestamp = replayer.currentTime
    /\ replayer.events[3].timestamp > replayer.currentTime
    /\ replayer.index = 1

----------------------------------------------------------------------------
(* The frame stamps and the shape of the pending buffer *)

\* C28: rafStamps.invokeId changes only in intake and only to the current
\* latestId: no other operation changes it, an intake while latestId equals
\* invokeId leaves it unchanged, and right after every intake invokeId
\* equals latestId
C28_InvokeIdFollowsLatestId ==
    [][ /\ rafStamps'.invokeId # rafStamps.invokeId => lastCall'.op = "processMutation"
        /\ lastCall'.op = "processMutation"
           => /\ rafStamps'.invokeId = rafStamps.latestId
              /\ rafStamps'.latestId = rafStamps.latestId
              /\ rafStamps.invokeId = rafStamps.latestId
                 => rafStamps'.invokeId = rafStamps.invokeId
    ]_vars

\* an intake in a later frame than the one before it has just moved invokeId
C28_Witness ==
    /\ lastCall.op = "processMutation"
    /\ intakeCount >= 2
    /\ rafStamps.latestId > 0
    /\ rafStamps.invokeId = rafStamps.latestId
    /\ \E k \in 1..Len(pendingCanvasMutations) :
          Len(pendingCanvasMutations[k].value) >= 2

\* C29: in every reachable state every canvas that is a key of the pending
\* buffer has a non-empty sequence of records
C29_PendingQueuesAreNonEmpty ==
    \A k \in 1..Len(pendingCanvasMutations) : pendingCanvasMutations[k].value # << >>

\* a flush has just emitted the records of one canvas and left those of
\* another in the buffer
C29_Witness ==
    /\ lastCall.op = "flush"
    /\ Len(emitted) > lastCall.emittedBefore
    /\ pendingCanvasMutations # << >>
    /\ \A k \in 1..Len(pendingCanvasMutations) : pendingCanvasMutations[k].value # << >>

----------------------------------------------------------------------------
(* Snapshots while the gates are closed *)

InitGated == InitSnapshot

NextGated ==
    \/ Freeze
    \/ Unfreeze
    \/ Lock
    \/ Unlock
    \/ \E shadowRoot \in ShadowRoots : shadowDoms = << >> /\ AddShadowRoot(shadowRoot)
    \/ now < LifeFrames * FrameStep /\ AnimationFrame
    \/ \E canvasElement \in Canvases \cup {"none"}, skip \in BOOLEAN :
          Snapshot(canvasElement, skip)
    \/ \E i \in 1..Len(bitmapPending) : BitmapResolved(i)
    \/ \E i \in 1..Len(workerInbox), hasBase64 \in BOOLEAN : WorkerMessage(i, hasBase64)

GatedSnapshotSpec == InitGated /\ [][NextGated]_vars

\* C30: frozen and locked are not consulted by the snapshot pipeline: while
\* either is set, a takeSnapshot that is taken still marks and captures every
\* eligible candidate, a capture that succeeds is still posted to the worker,
\* and a worker reply with base64 still emits its event
C30_GatesDoNotStopSnapshots ==
    [][ (frozen \/ locked)
        => /\ (CallsOfStep # << >> /\ CallsOfStep[1].result = "taken")
              => \A canvas \in Canvases :
                    (/\ IsCandidate(CallsOfStep[1], canvas)
                     /\ mirror[canvas] # NoId
                     /\ ~InProgress(snapshotInProgressMap, mirror[canvas]))
                    => /\ InSeq(mirror[canvas], CallsOfStep[1].captured)
                       /\ InProgress(snapshotInProgressMap', mirror[canvas])
           /\ lastCall'.op = "bitmapResolved"
              => /\ Len(workerInbox') = Len(workerInbox) + 1
                 /\ workerInbox'[Len(workerInbox')].id = lastCall'.id
           /\ (lastCall'.op = "workerMessage" /\ lastCall'.base64)
              => emitted' = Append(emitted, SnapshotEvent(lastCall'.reply))
    ]_vars

\* a worker reply has just been emitted while the manager is frozen and locked
C30_Witness ==
    /\ frozen
    /\ locked
    /\ lastCall.op = "workerMessage"
    /\ lastCall.base64
    /\ emitted # << >>
    /\ emitted[Len(emitted)] = SnapshotEvent(lastCall.reply)

----------------------------------------------------------------------------
(* The lifetime of a manager whose captures settle and whose worker replies *)

\* a createImageBitmap promise settles
CaptureSettles ==
    \E i \in 1..Len(bitmapPending) : BitmapResolved(i) \/ BitmapRejected(i)

\* the worker answers a request it holds
WorkerReplies ==
    \E i \in 1..Len(workerInbox), hasBase64 \in BOOLEAN : WorkerMessage(i, hasBase64)

FairLifecycleSpec ==
    LifecycleSpec /\ WF_vars(CaptureSettles) /\ WF_vars(WorkerReplies)

\* C27: every in-flight flag is eventually cleared: an id that takeSnapshot
\* has marked in flight becomes eligible again, by a worker reply, a capture
\* failure or reset, given that captures settle and the worker replies
C27_InFlightIsEventuallyCleared ==
    \A id \in Ids :
       InProgress(snapshotInProgressMap, id) ~> ~InProgress(snapshotInProgressMap, id)

----------------------------------------------------------------------------
(* The registry and the loops, for every configuration of the recorder *)

\* every combination of recordCanvas, enableManualSnapshot and the kind of
\* sampling the constructor distinguishes
AnyOptions ==
    {[recordCanvas |-> r, enableManualSnapshot |-> m, sampling |-> k,
      samplingRate |-> IF k = "number" THEN 2 ELSE 0] :
        r \in BOOLEAN, m \in BOOLEAN, k \in {"all", "number"}}

InitRegistry ==
    /\ \E opts \in AnyOptions : Construct(opts)
    /\ dom = PlainDom /\ replayer = NoReplayer

NextRegistry ==
    \/ Reset
    \/ \E win \in Windows : AddWindow(win)
    \/ \E shadowRoot \in ShadowRoots : AddShadowRoot(shadowRoot)
    \/ ResetShadowRoots
    \/ FlushPendingCanvasMutations
    \/ AnimationFrame
    \/ \E canvasElement \in Canvases \cup {"none"}, skip \in BOOLEAN :
          Snapshot(canvasElement, skip)
    \/ \E i \in 1..Len(bitmapPending) : BitmapResolved(i)
    \/ \E i \in 1..Len(workerInbox), hasBase64 \in BOOLEAN : WorkerMessage(i, hasBase64)

RegistrySpec == InitRegistry /\ [][NextRegistry]_vars

\* the periodic snapshot loop is scheduled
LoopRuns == "fps" \in rafLoops

\* C31: the periodic snapshot loop runs only when canvas recording is on, the
\* sampling is numeric, manual-snapshot-only mode is off and the registry holds
\* a window or a shadow root; it is started by the constructor only; while it
\* runs, every animation frame calls takeSnapshot(timestamp, false) first, and
\* it runs until reset stops it.  In manual-snapshot-only mode no loop is
\* scheduled and no observer is attached.
C31_SnapshotLoopRunsWhenConfigured ==
    /\ [](/\ LoopRuns => /\ options.recordCanvas
                          /\ options.sampling = "number"
                          /\ ~options.enableManualSnapshot
                          /\ Len(windows) + Len(shadowDoms) >= 1
          /\ options.enableManualSnapshot =>
                rafLoops = {} /\ restoreHandlers = << >>)
    /\ [][/\ ~LoopRuns => ~LoopRuns'
          /\ LoopRuns /\ lastCall'.op = "animationFrame" =>
                /\ Len(lastCall'.calls) >= 1
                /\ lastCall'.calls[1].manual = FALSE
                /\ lastCall'.calls[1].canvas = "none"
                /\ lastCall'.calls[1].timestamp = now'
          /\ LoopRuns => (LoopRuns' <=> lastCall'.op # "reset")]_vars

\* the loop has run on two frames in a row and is still scheduled
C31_Witness ==
    /\ LoopRuns
    /\ lastCall.op = "animationFrame"
    /\ now = 2 * FrameStep
    /\ Len(lastCall.calls) >= 1
    /\ lastCall.calls[1].manual = FALSE
    /\ lastCall.calls[1].result = "throttled"

----------------------------------------------------------------------------
(* Which canvases a snapshot pass captures: canvases of size 0, contexts that *)
(* preserve their drawing buffer, nodes the mirror does not track, and a      *)
(* shadow root that is registered twice                                       *)

InitCapture ==
    /\ \E manual \in BOOLEAN : Construct(SnapshotOptions(manual))
    /\ dom \in [collected   : {{}},
                crossOrigin : {{}},
                blocked     : {{}},
                preserving  : SUBSET {"canvasB"},
                zeroWidth   : SUBSET {"canvasB"},
                zeroHeight  : SUBSET {"canvasA"}]
    /\ replayer = NoReplayer

NextCapture ==
    \/ \E canvas \in Canvases : MirrorRemove(canvas)
    \/ \E canvas \in Canvases : MirrorAdd(canvas)
    \/ \E shadowRoot \in ShadowRoots : AddShadowRoot(shadowRoot)
    \/ now < LifeFrames * FrameStep /\ AnimationFrame
    \/ \E canvasElement \in Canvases \cup {"none"}, skip \in BOOLEAN :
          Snapshot(canvasElement, skip)
    \/ \E i \in 1..Len(bitmapPending) : BitmapResolved(i)
    \/ \E i \in 1..Len(workerInbox), hasBase64 \in BOOLEAN : WorkerMessage(i, hasBase64)

CaptureSpec == InitCapture /\ [][NextCapture]_vars

\* the pass did step for id at position i of its trace
TraceHas(trace, i, step, id) ==
    i \in 1..Len(trace) /\ trace[i].step = step /\ trace[i].id = id

\* C32: a takeSnapshot pass clears the WebGL color buffer of a canvas if and
\* only if the pass is not manual, it has just marked the canvas in flight,
\* the canvas's recorded context is webgl or webgl2 and preserveDrawingBuffer
\* is false; the clear comes after the mark and right before the bitmap
\* capture of that canvas; no manual pass and no skipped canvas gets a clear.
C32_WebGLClearOnlyWhenNeeded ==
    [][ \A k \in 1..Len(CallsOfStep), canvas \in Canvases :
           LET call == CallsOfStep[k]
               id   == mirror[canvas]
           IN  /\ InSeq(canvas, call.cleared) <=>
                     /\ ~call.manual
                     /\ id # NoId
                     /\ InSeq(id, call.captured)
                     /\ ContextOf(canvas) \in {"webgl", "webgl2"}
                     /\ ~PreservesBuffer(canvas)
               /\ InSeq(canvas, call.cleared) <=>
                     \E i \in 1..Len(call.trace) : TraceHas(call.trace, i, "clear", id)
               /\ \A i \in 1..Len(call.trace) :
                     TraceHas(call.trace, i, "clear", id) =>
                        /\ TraceHas(call.trace, i - 1, "mark", id)
                        /\ TraceHas(call.trace, i + 1, "capture", id)
      ]_vars

\* a pass of the periodic loop has cleared and captured the WebGL canvas
C32_Witness ==
    \E k \in 1..Len(Calls) :
       /\ ~Calls[k].manual
       /\ Calls[k].result = "taken"
       /\ Calls[k].cleared = << "canvasB" >>
       /\ InSeq(MirrorId("canvasB"), Calls[k].captured)
       /\ "canvasB" \notin dom.preserving

\* the mirror does not track the canvas, or its width or its height is 0
Unfit(canvas) ==
    \/ mirror[canvas] = NoId
    \/ CanvasWidth(canvas) = 0
    \/ CanvasHeight(canvas) = 0

\* C33: in a takeSnapshot pass that is not throttled, a candidate the mirror
\* does not track, or of width 0 or height 0, is skipped: no mark, no capture,
\* and the in-flight map is the same for its id; every other candidate that is
\* not in flight already is marked in flight and then captured.
C33_UnfitCandidatesAreSkipped ==
    [][ \A k \in 1..Len(CallsOfStep), canvas \in Canvases :
           LET call == CallsOfStep[k]
               id   == mirror[canvas]
           IN  (call.result = "taken" /\ IsCandidate(call, canvas)) =>
                  IF Unfit(canvas)
                  THEN /\ ~InSeq(id, call.captured)
                       /\ \A i \in 1..Len(call.trace) : call.trace[i].id # id
                       /\ MapHas(snapshotInProgressMap', id)
                             <=> MapHas(snapshotInProgressMap, id)
                       /\ InProgress(snapshotInProgressMap', id)
                             <=> InProgress(snapshotInProgressMap, id)
                       /\ CapturesOf(bitmapPending', id) = CapturesOf(bitmapPending, id)
                  ELSE /\ (/\ ~InProgress(snapshotInProgressMap, id)
                           /\ \A j \in 1..(k - 1) : ~InSeq(id, CallsOfStep[j].captured))
                          => InSeq(id, call.captured)
                       /\ InSeq(id, call.captured) =>
                             /\ \E i, j \in 1..Len(call.trace) :
                                   /\ i < j
                                   /\ TraceHas(call.trace, i, "mark", id)
                                   /\ TraceHas(call.trace, j, "capture", id)
                             /\ InProgress(snapshotInProgressMap', id)
                             /\ CapturesOf(bitmapPending', id)
                                   = CapturesOf(bitmapPending, id) + 1
      ]_vars

\* a pass over the registry has skipped the canvas of height 0 and captured
\* the other one
C33_Witness ==
    \E k \in 1..Len(Calls) :
       /\ Calls[k].result = "taken"
       /\ Calls[k].canvas = "none"
       /\ "canvasA" \in dom.zeroHeight
       /\ mirror["canvasA"] # NoId
       /\ InSeq("canvasA", GetCanvasElements)
       /\ ~InSeq(mirror["canvasA"], Calls[k].captured)
       /\ Calls[k].captured = << MirrorId("canvasB") >>

\* the number of times x occurs in seq
Occurrences(x, seq) == Cardinality({k \in 1..Len(seq) : seq[k] = x})

\* C40: one takeSnapshot pass requests at most one bitmap capture per canvas
\* id, however many times discovery returns the canvas.
C40_OneCapturePerCanvasAndPass ==
    [][ \A id \in Ids :
           /\ \A k \in 1..Len(CallsOfStep) :
                 Occurrences(id, CallsOfStep[k].captured) <= 1
           /\ CallsOfStep # << >> =>
                 CapturesOf(bitmapPending', id) <= CapturesOf(bitmapPending, id) + 1
      ]_vars

\* a pass has found the canvas of a twice-registered shadow root twice and
\* captured it
C40_Witness ==
    \E k \in 1..Len(Calls) :
       /\ Calls[k].result = "taken"
       /\ Calls[k].canvas = "none"
       /\ Occurrences("canvasB", GetCanvasElements) = 2
       /\ Occurrences(MirrorId("canvasB"), Calls[k].captured) = 1

----------------------------------------------------------------------------
(* The shadow-root registry *)

\* everything the manager holds but the shadow-root registry
AllButShadowDoms ==
    << options, pendingCanvasMutations, rafStamps, windowsSet, windows,
       restoreHandlers, frozen, locked, snapshotInProgressMap, worker,
       lastSnapshotTime, rafLoops, rafOnce, bitmapPending, workerInbox, emitted >>

\* C34: addShadowRoot always adds one entry, also for a shadow root that is
\* registered already, and changes nothing else; resetShadowRoots empties
\* the shadow-root registry and leaves the window registry, the pending
\* buffer, the in-flight map, the gates, the teardown handlers and the worker
\* as they are.
C34_ShadowRootRegistry ==
    [][ /\ lastCall'.op = "addShadowRoot" =>
              /\ \E shadowRoot \in ShadowRoots :
                    shadowDoms' = Append(shadowDoms, shadowRoot)
              /\ UNCHANGED AllButShadowDoms
        /\ lastCall'.op = "resetShadowRoots" =>
              /\ shadowDoms' = << >>
              /\ UNCHANGED << windowsSet, windows, pendingCanvasMutations,
                              snapshotInProgressMap, frozen, locked,
                              restoreHandlers, worker >>
      ]_vars

\* resetShadowRoots has just emptied a registry that held the same shadow
\* root twice, and the window, the in-flight map and the worker are still there
C34_Witness ==
    /\ lastCall.op = "resetShadowRoots"
    /\ lastCall.before = 2
    /\ shadowDoms = << >>
    /\ windows = << "win" >>
    /\ snapshotInProgressMap # << >>
    /\ worker # "null"

----------------------------------------------------------------------------
(* What a takeSnapshot call leaves behind when it returns *)

\* lastSnapshotTime as the k-th takeSnapshot call of the step finds it
LastBefore(k) ==
    IF \E j \in 1..(k - 1) : CallsOfStep[j].result = "taken"
    THEN CallsOfStep[CHOOSE j \in 1..(k - 1) :
                        /\ CallsOfStep[j].result = "taken"
                        /\ \A i \in (j + 1)..(k - 1) : CallsOfStep[i].result # "taken"
                    ].timestamp
    ELSE lastSnapshotTime

\* the captures all the calls of the step requested
RECURSIVE CapturedInStep(_)
CapturedInStep(k) ==
    IF k = 0 THEN << >> ELSE CapturedInStep(k - 1) \o CallsOfStep[k].captured

\* C35: a takeSnapshot call that is not throttled returns "taken" and leaves
\* lastSnapshotTime at its timestamp, also when it finds no eligible
\* candidate; when it returns, its captures are requested and still pending:
\* nothing has been posted to the worker and no event has been emitted.
C35_TakenStampsAndDoesNotWait ==
    [][ CallsOfStep # << >> =>
          /\ \A k \in 1..Len(CallsOfStep) :
                /\ CallsOfStep[k].result = "taken"
                      <=> ~ShouldThrottle(LastBefore(k), CallsOfStep[k].timestamp)
                /\ CallsOfStep[k].result \in {"taken", "throttled"}
          /\ lastSnapshotTime' = LastBefore(Len(CallsOfStep) + 1)
          /\ emitted' = emitted
          /\ workerInbox' = workerInbox
          /\ Len(bitmapPending') = Len(bitmapPending) + Len(CapturedInStep(Len(CallsOfStep)))
          /\ \A i \in 1..Len(CapturedInStep(Len(CallsOfStep))) :
                bitmapPending'[Len(bitmapPending) + i].id
                   = CapturedInStep(Len(CallsOfStep))[i]
      ]_vars

\* a takeSnapshot call was taken at a new timestamp although its only
\* candidate has height 0, and lastSnapshotTime is its timestamp
C35_Witness ==
    \E k \in 1..Len(Calls) :
       /\ Calls[k].result = "taken"
       /\ Calls[k].canvas = "canvasA"
       /\ "canvasA" \in dom.zeroHeight
       /\ Calls[k].captured = << >>
       /\ Calls[k].timestamp > 0
       /\ Calls[k].after # Calls[k].timestamp
       /\ lastSnapshotTime = Calls[k].timestamp

----------------------------------------------------------------------------
(* Canvases are flushed one by one *)

\* the entries of the pending buffer a flush pass cannot emit
Unresolvable(map) == SelectSeq(map, LAMBDA entry : mirror[entry.key] = NoId)

\* C36: in one flush pass with both gates clear, what happens to one canvas
\* (emitted, or skipped because the mirror has no id for it) changes no other
\* canvas's queue: every skipped canvas keeps its queue as it was, every
\* canvas with a valid id is emitted in that pass with its own records and
\* nothing else, and there is no other event.
C36_CanvasesFlushIndependently ==
    [][ (lastCall'.op = "flush" /\ ~frozen /\ ~locked) =>
          /\ pendingCanvasMutations' = Unresolvable(pendingCanvasMutations)
          /\ Len(NewEvents)
                = Len(pendingCanvasMutations) - Len(Unresolvable(pendingCanvasMutations))
          /\ \A i, j \in 1..Len(pendingCanvasMutations) :
                LET one   == pendingCanvasMutations[i]
                    other == pendingCanvasMutations[j]
                IN  (i # j /\ mirror[other.key] # NoId) =>
                       \E n \in 1..Len(NewEvents) :
                          /\ NewEvents[n].id = mirror[other.key]
                          /\ CarriesQueue(NewEvents[n], other.value)
                          /\ \A k \in 1..Len(NewEvents[n].commands) :
                                \A r \in 1..Len(one.value) :
                                   NewEvents[n].commands[k] # StripType(one.value)[r]
      ]_vars

\* a flush pass with both gates clear has skipped one canvas, whose queue is
\* still pending, and emitted the other
C36_Witness ==
    /\ lastCall.op = "flush" /\ ~frozen /\ ~locked
    /\ Len(emitted) = lastCall.emittedBefore + 1
    /\ Len(pendingCanvasMutations) = 1
    /\ mirror[pendingCanvasMutations[1].key] = NoId
    /\ emitted[Len(emitted)].id # NoId

----------------------------------------------------------------------------
(* The throttle over a whole run *)

\* C37: over any run of takeSnapshot calls, manual or not, whose timestamps
\* do not decrease, lastSnapshotTime never decreases, and two consecutive
\* taken calls are at least 1000 / fps apart unless the earlier of the two
\* was taken at timestamp 0.
C37_TakenCallsAreSpaced ==
    [][ /\ lastSnapshotTime' >= lastSnapshotTime
        /\ \A k \in 1..Len(CallsOfStep) :
              LET call == CallsOfStep[k]
              IN  /\ call.after # NeverTaken => call.timestamp >= call.after
                  /\ (/\ call.result = "taken"
                      /\ call.after # NeverTaken
                      /\ call.after # 0)
                     => (call.timestamp - call.after) * Fps >= 1000
      ]_vars

\* a call has been taken one interval after the taken call before it, a
\* throttled frame and possibly a reset in between
C37_Witness ==
    \E k \in 1..Len(Calls) :
       /\ Calls[k].result = "taken"
       /\ Calls[k].after > 0
       /\ (Calls[k].timestamp - Calls[k].after) * Fps = 1000
       /\ lastSnapshotTime = Calls[k].timestamp

----------------------------------------------------------------------------
(* The worker after reset *)

\* an event that worker.onmessage emits: it draws an image
IsSnapshotEvent(event) ==
    \E k \in 1..Len(event.commands) : event.commands[k].property = "drawImage"

\* C38: the worker is created by the constructor only: reset() leaves the
\* manager without one and nothing creates another.  From then on no request
\* is posted to a worker and no snapshot event is emitted, while a takeSnapshot
\* call that is not throttled still marks the canvases it captures in flight.
C38_NoWorkerAfterReset ==
    /\ [](worker = "null" => workerInbox = << >>)
    /\ [][ /\ lastCall'.op = "reset" => worker' = "null"
           /\ worker = "null" =>
                 /\ worker' = "null"
                 /\ \A n \in 1..Len(NewEvents) : ~IsSnapshotEvent(NewEvents[n])
                 /\ \A k \in 1..Len(CallsOfStep) :
                       \A i \in 1..Len(CallsOfStep[k].captured) :
                          InProgress(snapshotInProgressMap', CallsOfStep[k].captured[i])
         ]_vars

\* after a reset of a manager that had a worker, a takeSnapshot call has
\* captured a canvas and marked it in flight
C38_Witness ==
    /\ CreatesWorker(options)
    /\ worker = "null"
    /\ \E k \in 1..Len(Calls) :
          /\ Calls[k].result = "taken"
          /\ Calls[k].captured # << >>
          /\ InProgress(snapshotInProgressMap, Calls[k].captured[1])

----------------------------------------------------------------------------
(* The gates over freeze, unfreeze, lock, unlock and reset *)

NextGates ==
    \/ Freeze
    \/ Unfreeze
    \/ Lock
    \/ Unlock
    \/ Reset
    \/ \E win \in Windows : AddWindow(win)
    \/ \E target \in Canvases : intakeCount < LifeIntake /\ ProcessMutation(target)
    \/ FlushPendingCanvasMutations

GateSpec == Init /\ [][NextGates]_vars

\* C39: frozen and locked are booleans, not counters: freeze (lock) on a
\* frozen (locked) manager leaves it frozen (locked), one unfreeze (unlock)
\* opens the gate however many freeze (lock) calls came before, neither pair
\* touches the other gate, and reset() leaves both gates as they were.
C39_GatesArePlainBooleans ==
    /\ [](frozen \in BOOLEAN /\ locked \in BOOLEAN)
    /\ [][ /\ lastCall'.op = "freeze"   => frozen' /\ locked' = locked
           /\ lastCall'.op = "unfreeze" => ~frozen' /\ locked' = locked
           /\ lastCall'.op = "lock"     => locked' /\ frozen' = frozen
           /\ lastCall'.op = "unlock"   => ~locked' /\ frozen' = frozen
           /\ lastCall'.op = "reset"    => frozen' = frozen /\ locked' = locked
         ]_vars

\* reset has just run on a frozen and locked manager with pending records,
\* and both gates are still closed
C39_Witness ==
    /\ lastCall.op = "reset"
    /\ lastCall.before.pending > 0
    /\ frozen
    /\ locked
====
